---- MODULE Spec2Model ----
(***************************************************************************)
(* A model of llemecode's agent loop, tool registry, permission gate and   *)
(* chat front-end.                                                         *)
(*                                                                         *)
(* Go strings are modelled as sequences of one-character strings, so that  *)
(* substring search, word splitting and path cleaning are computed the way *)
(* the code computes them.  A Go (string, error) pair is a record          *)
(* [result, err] whose err is NoErr for a nil error.                       *)
(***************************************************************************)
EXTENDS Integers, Sequences, FiniteSets, TLC

(***************************************************************************)
(* Strings                                                                 *)
(***************************************************************************)
EmptyStr == << >>

Slash == "/"

Space == " "

Concat(a, b) == a \o b

HasPrefix(s, prefix) ==
    /\ Len(s) >= Len(prefix)
    /\ SubSeq(s, 1, Len(prefix)) = prefix

\* permissions.go findInString: try every start offset i in 0..len(s)-len(substr)
findInString(s, substr) ==
    \E i \in 0..(Len(s) - Len(substr)) : SubSeq(s, i + 1, i + Len(substr)) = substr

\* permissions.go contains: the hand-written strings.Contains
contains(s, substr) ==
    /\ Len(s) >= Len(substr)
    /\ \/ s = substr
       \/ /\ Len(s) > Len(substr)
          /\ \/ SubSeq(s, 1, Len(substr)) = substr
             \/ SubSeq(s, Len(s) - Len(substr) + 1, Len(s)) = substr
             \/ findInString(s, substr)

\* strings.Fields(s)[0] when it exists, EmptyStr when s has no field
RECURSIVE SkipSpaces(_)
SkipSpaces(s) ==
    IF s = EmptyStr THEN EmptyStr
    ELSE IF Head(s) = Space THEN SkipSpaces(Tail(s)) ELSE s

RECURSIVE TakeWord(_)
TakeWord(s) ==
    IF s = EmptyStr \/ Head(s) = Space THEN EmptyStr
    ELSE <<Head(s)>> \o TakeWord(Tail(s))

FirstField(s) == TakeWord(SkipSpaces(s))

(***************************************************************************)
(* Paths: filepath.Clean, Abs, Rel and Match on Unix                       *)
(***************************************************************************)
\* the components of s between slashes, empty components included
RECURSIVE SplitSlash(_, _)
SplitSlash(s, cur) ==
    IF s = EmptyStr THEN <<cur>>
    ELSE IF Head(s) = Slash THEN <<cur>> \o SplitSlash(Tail(s), EmptyStr)
    ELSE SplitSlash(Tail(s), Append(cur, Head(s)))

RECURSIVE JoinSlash(_)
JoinSlash(comps) ==
    IF comps = << >> THEN EmptyStr
    ELSE IF Len(comps) = 1 THEN Head(comps)
    ELSE Head(comps) \o <<Slash>> \o JoinSlash(Tail(comps))

Dot == <<".">>

DotDot == <<".", ".">>

\* filepath.Clean's pass over the components: "" and "." are dropped, ".."
\* removes the component before it, stays put at the front of a relative path
\* and is dropped at the root
RECURSIVE CleanComps(_, _, _)
CleanComps(comps, out, rooted) ==
    IF comps = << >> THEN out
    ELSE LET c == Head(comps) rest == Tail(comps) IN
         IF c = EmptyStr \/ c = Dot THEN CleanComps(rest, out, rooted)
         ELSE IF c = DotDot THEN
              IF out # << >> /\ out[Len(out)] # DotDot
                  THEN CleanComps(rest, SubSeq(out, 1, Len(out) - 1), rooted)
              ELSE IF rooted THEN CleanComps(rest, out, rooted)
              ELSE CleanComps(rest, Append(out, c), rooted)
         ELSE CleanComps(rest, Append(out, c), rooted)

IsRooted(s) == s # EmptyStr /\ Head(s) = Slash

Clean(s) ==
    IF s = EmptyStr THEN Dot
    ELSE LET body == JoinSlash(CleanComps(SplitSlash(s, EmptyStr), << >>, IsRooted(s))) IN
         IF IsRooted(s) THEN <<Slash>> \o body
         ELSE IF body = EmptyStr THEN Dot ELSE body

\* the process's working directory, os.Getwd()
WorkingDir == <<"/", "w">>

\* filepath.Abs: a relative path is joined to the working directory
Abs(p) == IF IsRooted(p) THEN Clean(p) ELSE Clean(WorkingDir \o <<Slash>> \o p)

RECURSIVE CommonPrefixLen(_, _)
CommonPrefixLen(a, b) ==
    IF a = << >> \/ b = << >> \/ Head(a) # Head(b) THEN 0
    ELSE 1 + CommonPrefixLen(Tail(a), Tail(b))

\* filepath.Rel of two absolute, cleaned paths
Rel(base, targ) ==
    IF base = targ THEN Dot
    ELSE LET bc == CleanComps(SplitSlash(base, EmptyStr), << >>, TRUE)
             tc == CleanComps(SplitSlash(targ, EmptyStr), << >>, TRUE)
             n  == CommonPrefixLen(bc, tc)
             ups == [i \in 1..(Len(bc) - n) |-> DotDot]
         IN JoinSlash(ups \o SubSeq(tc, n + 1, Len(tc)))

\* filepath.Match for patterns of literal characters, '?' and '*'
RECURSIVE Match(_, _)
Match(pattern, name) ==
    IF pattern = EmptyStr THEN name = EmptyStr
    ELSE IF Head(pattern) = "*" THEN
         \/ Match(Tail(pattern), name)
         \/ /\ name # EmptyStr
            /\ Head(name) # Slash
            /\ Match(pattern, Tail(name))
    ELSE /\ name # EmptyStr
         /\ \/ Head(pattern) = "?" /\ Head(name) # Slash
            \/ Head(pattern) = Head(name)
         /\ Match(Tail(pattern), Tail(name))

(***************************************************************************)
(* State                                                                   *)
(***************************************************************************)
VARIABLES
    permissionConfig,   \* ProtectedTool.permissionConfig, shared by every gate
    checker,            \* ProtectedTool.checker, shared by every gate
    gate,               \* the frame of the ProtectedTool.Execute call in progress
    registry,           \* Registry.tools: name -> registered tool
    cfgStore,           \* config.Config: the lists the tool commands rewrite
    mcpServers,         \* MCPToolRegistry.clients: server name -> its remote tools
    messages,           \* Agent.messages
    toolCallFormat,     \* Agent.toolCallFormat
    disabledTools,      \* Agent.disabledTools
    backendStyle,       \* how the model behind the backend writes its tool calls
    chat,               \* the frame of the Agent.Chat call in progress
    incidents,          \* what the run has spent of MaxIncidents
    ui,                 \* the chatModel the Bubble Tea program holds
    turns,              \* the closures chatModel.chat returned, in start order
    inbox,              \* messages sent to the program and not yet handled
    requests,           \* the permissionRequests made, with their channels
    disk,               \* AlwaysAllowPatterns in the configuration file
    journal,            \* how many chat messages and tool calls the run has had
    executor,           \* InlineCommandExecutor: the invocation and its events
    session,            \* the chat session's disabled tools and its agent's
    benchmark,          \* BackgroundBenchmark and the scores it has gathered
    sample,             \* the argument and the result of a function under study
    client,             \* one MCPClient, its server's streams and its callers
    progress,           \* a progress channel, its senders and its reader
    files,              \* the configuration file and the writes of it in progress
    tracker             \* ModelMemoryTracker and the calls of it in progress

vars == <<permissionConfig, checker, gate, registry, cfgStore, mcpServers,
          messages, toolCallFormat, disabledTools, backendStyle, chat, incidents,
          ui, turns, inbox, requests, disk, journal,
          executor, session, benchmark, sample, client, progress, files, tracker>>

gateVars == <<permissionConfig, checker, gate>>

registryVars == <<registry, cfgStore, mcpServers>>

agentVars == <<messages, toolCallFormat, disabledTools, backendStyle, chat, incidents>>

uiVars == <<ui, turns, inbox, requests, disk, journal>>

auxVars == <<executor, session, benchmark, sample, client, progress, files, tracker>>

concurrentVars == <<client, progress, files, tracker>>

(***************************************************************************)
(* Values                                                                  *)
(***************************************************************************)
\* a Go error: NoErr is nil, any other one has a kind and the text it quotes
Err(kind, detail) == [kind |-> kind, detail |-> detail]

NoErr == Err("nil", << >>)

\* a Go string value and a non-string value of an argument map
Str(s) == [t |-> "str", v |-> s]

Num(n) == [t |-> "num", v |-> n]

NoArgs == << >>

Arg1(k, v) == (k :> v)

Arg2(k1, v1, k2, v2) == (k1 :> v1) @@ (k2 :> v2)

\* args[key].(string): the value and whether the assertion succeeded
IsStrArg(args, key) == key \in DOMAIN args /\ args[key].t = "str"

\* tools.PermissionLevel
PermissionLevels == {"Safe", "Read", "Write", "Execute", "Network"}

ShellToolName == "run_command"

CmdLs == <<"l", "s">>

CmdRmRf == <<"r", "m", " ", "-", "r", "f", " ", "/">>

CmdSudoRmRf == <<"s", "u", "d", "o", " ">> \o CmdRmRf \o <<"t", "m", "p">>

CmdMkfs == <<"m", "k", "f", "s">>

WordRm == <<"r", "m">>

WordSudo == <<"s", "u", "d", "o">>

PathInside == <<"a", ".", "g", "o">>

PathOutside == <<".", ".", "/", "e">>

PathDotDotName == <<".", ".", "f">>

PathRootEtc == <<"/", "e">>

\* DefaultPermissionConfig(); of its five blocked substrings the model keeps two
DefaultPermissionConfig ==
    [ AutoApproveSafe        |-> TRUE,
      AutoApproveRead        |-> TRUE,
      RequireApprovalWrite   |-> TRUE,
      RequireApprovalExecute |-> TRUE,
      RequireApprovalNetwork |-> FALSE,
      BlockedCommands        |-> <<CmdRmRf, CmdMkfs>>,
      AlwaysAllowPatterns    |-> << >>,
      RestrictToWorkingDir   |-> FALSE ]

NilConfig == [isNil |-> TRUE]

\* NewProtectedTool: a nil config becomes the default one
NewProtectedToolConfig(config) ==
    IF config = NilConfig THEN DefaultPermissionConfig ELSE config

Pattern(tool, path, cmd, always, enabled) ==
    [ Tool |-> tool, PathPattern |-> path, CommandPattern |-> cmd,
      AlwaysAllow |-> always, Enabled |-> enabled ]

(***************************************************************************)
(* The permission gate: ProtectedTool.Execute                              *)
(***************************************************************************)
\* the target token: path, else file_path, else command, else ""
TargetPath(args) ==
    IF IsStrArg(args, "path") THEN args["path"].v
    ELSE IF IsStrArg(args, "file_path") THEN args["file_path"].v
    ELSE IF IsStrArg(args, "command") THEN args["command"].v
    ELSE EmptyStr

ErrOutside(target) == Err("access denied: path is outside working directory", target)

\* checkWorkingDirRestriction: NoErr, or the error for a target whose path
\* relative to the working directory starts with ".."
checkWorkingDirRestriction(targetPath) ==
    IF targetPath = EmptyStr THEN NoErr
    ELSE IF HasPrefix(Rel(Abs(WorkingDir), Abs(targetPath)), DotDot)
         THEN ErrOutside(targetPath)
         ELSE NoErr

\* one iteration of the loop of matchesAlwaysAllowPattern
PatternMatches(pattern, toolName, targetPath) ==
    /\ pattern.Enabled
    /\ pattern.Tool = "*" \/ pattern.Tool = toolName
    /\ \/ pattern.AlwaysAllow
       \/ /\ pattern.CommandPattern # EmptyStr
          /\ toolName = ShellToolName
          /\ targetPath # EmptyStr
          /\ FirstField(targetPath) # EmptyStr
          /\ FirstField(targetPath) = pattern.CommandPattern
       \/ /\ pattern.PathPattern # EmptyStr
          /\ targetPath # EmptyStr
          /\ \/ Match(pattern.PathPattern, targetPath)
             \/ HasPrefix(Clean(targetPath), Clean(pattern.PathPattern))

matchesAlwaysAllowPattern(cfg, toolName, targetPath) ==
    \E i \in 1..Len(cfg.AlwaysAllowPatterns) :
        PatternMatches(cfg.AlwaysAllowPatterns[i], toolName, targetPath)

\* the switch on pt.level
needsApprovalInverted(cfg, level) ==
    CASE level = "Safe"    -> cfg.AutoApproveSafe
      [] level = "Read"    -> cfg.AutoApproveRead
      [] level = "Write"   -> ~cfg.RequireApprovalWrite
      [] level = "Execute" -> ~cfg.RequireApprovalExecute
      [] level = "Network" -> ~cfg.RequireApprovalNetwork

needsApproval(cfg, level) ==
    CASE level = "Safe"    -> ~cfg.AutoApproveSafe
      [] level = "Read"    -> ~cfg.AutoApproveRead
      [] level = "Write"   -> cfg.RequireApprovalWrite
      [] level = "Execute" -> cfg.RequireApprovalExecute
      [] level = "Network" -> cfg.RequireApprovalNetwork

\* the indexes of the blocked substrings found in the command argument
BlockedHits(cfg, toolName, args) ==
    IF toolName = ShellToolName /\ IsStrArg(args, "command")
    THEN {i \in 1..Len(cfg.BlockedCommands) :
              contains(args["command"].v, cfg.BlockedCommands[i])}
    ELSE {}

Min(S) == CHOOSE x \in S : \A y \in S : x <= y

ErrBlocked(blocked) == Err("blocked command pattern detected", blocked)

ErrDenied == Err("permission denied by user", << >>)

ErrCheckFailed(e) == Err("permission check failed", <<e>>)

NoChecker == "nil"

\* ProtectedTool.Execute up to the point where it returns, asks or runs the tool
GateDecide(cfg, chk, toolName, level, args) ==
    LET target == TargetPath(args)
        wdErr  == IF cfg.RestrictToWorkingDir /\ target # EmptyStr
                  THEN checkWorkingDirRestriction(target) ELSE NoErr
        hits   == BlockedHits(cfg, toolName, args)
    IN  IF wdErr # NoErr THEN [kind |-> "fail", err |-> wdErr]
        ELSE IF matchesAlwaysAllowPattern(cfg, toolName, target)
             THEN [kind |-> "run", err |-> NoErr]
        ELSE IF hits # {}
             THEN [kind |-> "fail", err |-> ErrBlocked(cfg.BlockedCommands[Min(hits)])]
        ELSE IF needsApproval(cfg, level) /\ chk # NoChecker
             THEN [kind |-> "ask", err |-> NoErr]
        ELSE [kind |-> "run", err |-> NoErr]

\* what RequestPermission may return: AutoApproveChecker always approves, the
\* chat checkers return the user's answer or the context's error
CheckerAnswers(chk) ==
    IF chk = "auto" THEN {"approved"} ELSE {"approved", "denied", "error"}

\* the lines after RequestPermission returned: NoErr lets the tool run
AnswerErrIgnoringDenial(answer) ==
    IF answer = "error" THEN ErrCheckFailed("context canceled") ELSE NoErr

AnswerErr(answer) ==
    CASE answer = "error"    -> ErrCheckFailed("context canceled")
      [] answer = "denied"   -> ErrDenied
      [] answer = "approved" -> NoErr

\* what the wrapped tool's own Execute may return
ToolReturns ==
    { [result |-> "output", err |-> NoErr], [result |-> "", err |-> Err("tool failed", << >>)] }

GateIdle ==
    [ pc |-> "idle", tool |-> "", level |-> "", args |-> NoArgs,
      asked |-> << >>, answer |-> "none", invoked |-> << >>,
      ret |-> [result |-> "", err |-> NoErr] ]

\* pt.tool.Execute(ctx, args) and the return of what it returned
InvokeTool(g, r) ==
    [g EXCEPT !.pc = "returned",
              !.invoked = Append(@, [args |-> g.args, ret |-> r]),
              !.ret = r]

GateFail(g, e) == [g EXCEPT !.pc = "returned", !.ret = [result |-> "", err |-> e]]

\* the levels setupTools gives the built-in tools
ToolLevel ==
    [ read_file |-> "Read", write_file |-> "Write", run_command |-> "Execute",
      web_fetch |-> "Network", check_memory_status |-> "Safe",
      add_custom_tool |-> "Write", remove_custom_tool |-> "Write",
      add_mcp_server |-> "Execute", remove_mcp_server |-> "Write" ]

BuiltinTools == DOMAIN ToolLevel

\* ProtectedTool.Execute, first part: returns, runs the tool, or calls
\* RequestPermission and waits for its answer
GateExecute(toolName, level, args) ==
    /\ gate.pc = "idle"
    /\ LET g == [GateIdle EXCEPT !.tool = toolName, !.level = level, !.args = args]
           d == GateDecide(permissionConfig, checker, toolName, level, args)
       IN  \/ /\ d.kind = "fail"
              /\ gate' = GateFail(g, d.err)
           \/ /\ d.kind = "run"
              /\ \E r \in ToolReturns : gate' = InvokeTool(g, r)
           \/ /\ d.kind = "ask"
              /\ gate' = [g EXCEPT !.pc = "asking",
                                   !.asked = Append(@, [tool |-> toolName, level |-> level])]
    /\ UNCHANGED <<permissionConfig, checker>>

\* ProtectedTool.Execute, second part: RequestPermission has returned answer
GateResume(answer) ==
    /\ gate.pc = "asking"
    /\ LET g == [gate EXCEPT !.answer = answer] IN
       \/ /\ AnswerErr(answer) # NoErr
          /\ gate' = GateFail(g, AnswerErr(answer))
       \/ /\ AnswerErr(answer) = NoErr
          /\ \E r \in ToolReturns : gate' = InvokeTool(g, r)
    /\ UNCHANGED <<permissionConfig, checker>>

\* RequestPermission returns whatever its checker may return
CheckerAnswer == \E answer \in CheckerAnswers(checker) : GateResume(answer)

\* the caller takes the result; the gate is free for the next call
GateReturn ==
    /\ gate.pc = "returned"
    /\ gate' = GateIdle
    /\ UNCHANGED <<permissionConfig, checker>>

(***************************************************************************)
(* The registry: Registry.Execute                                          *)
(***************************************************************************)
EmptyRegistry == << >>

\* a registered tool: what it is and, when a ProtectedTool wraps it, its level
Gated(kind, level) == [kind |-> kind, wrapped |-> TRUE, level |-> level]

Bare(kind) == [kind |-> kind, wrapped |-> FALSE, level |-> "none"]

ErrToolNotFound(name) == Err("tool not found", <<name>>)

Outcome(r, ran) == [result |-> r.result, err |-> r.err, ran |-> ran]

\* ProtectedTool.Execute as one call: every result it can return, with whether
\* the wrapped tool ran
GateOutcomes(cfg, chk, toolName, level, args) ==
    LET d == GateDecide(cfg, chk, toolName, level, args) IN
    CASE d.kind = "fail" -> { Outcome([result |-> "", err |-> d.err], FALSE) }
      [] d.kind = "run"  -> { Outcome(r, TRUE) : r \in ToolReturns }
      [] d.kind = "ask"  ->
            { Outcome([result |-> "", err |-> AnswerErr(a)], FALSE) :
                  a \in {x \in CheckerAnswers(chk) : AnswerErr(x) # NoErr} }
            \cup (IF \E a \in CheckerAnswers(chk) : AnswerErr(a) = NoErr
                  THEN { Outcome(r, TRUE) : r \in ToolReturns } ELSE {})

\* Registry.Execute: the lookup, then the tool's own Execute
RegistryExecute(reg, cfg, chk, name, args) ==
    IF name \notin DOMAIN reg
    THEN { Outcome([result |-> "", err |-> ErrToolNotFound(name)], FALSE) }
    ELSE IF reg[name].wrapped
         THEN GateOutcomes(cfg, chk, name, reg[name].level, args)
         ELSE { Outcome(r, TRUE) : r \in ToolReturns }

RegisterIfAbsent(reg, name, tool) ==
    IF name \in DOMAIN reg THEN reg
    ELSE [n \in DOMAIN reg \cup {name} |-> IF n = name THEN tool ELSE reg[n]]

\* Registry.Register: the tool takes the place of any tool of the same name
Register(reg, name, tool) ==
    [n \in DOMAIN reg \cup {name} |-> IF n = name THEN tool ELSE reg[n]]

\* Registry.Unregister
Unregister(reg, name) == [n \in DOMAIN reg \ {name} |-> reg[n]]

\* Registry.AllFiltered: the names of the tools not in the disabled list
AllFiltered(reg, disabled) == {n \in DOMAIN reg : n \notin disabled}

(***************************************************************************)
(* The agent: Agent.Chat                                                   *)
(***************************************************************************)
maxIterations == 10

ToolCallFormats == {"native", "xml", "json", "text", "none"}

\* ollama.ToolCall
Call(name, args) == [name |-> name, args |-> args]

\* An assistant message's text is a sequence of segments: prose, or a tool call
\* written in one of the three text dialects
Prose(t) == [dialect |-> "prose", text |-> t, call |-> Call("", NoArgs)]

Written(dialect, call) == [dialect |-> dialect, text |-> "", call |-> call]

\* message contents
Text(segments) ==
    [kind |-> "text", segments |-> segments, tool |-> "", err |-> NoErr, result |-> ""]

ResultText(result) ==
    [kind |-> "result", segments |-> << >>, tool |-> "", err |-> NoErr, result |-> result]

\* fmt.Sprintf("Error executing tool %s: %v", name, err)
ErrorExecutingTool(name, err) ==
    [kind |-> "Error executing tool", segments |-> << >>, tool |-> name, err |-> err,
     result |-> ""]

\* ollama.Message
Message(role, content, toolName) ==
    [role |-> role, content |-> content, toolName |-> toolName]

\* ollama.ChatResponse, or the failure of the request
ChatResponse(segments, toolCalls) ==
    [failed |-> FALSE, Message |-> Message("assistant", Text(segments), ""),
     ToolCalls |-> toolCalls]

ChatFailure ==
    [failed |-> TRUE, Message |-> Message("", Text(<< >>), ""), ToolCalls |-> << >>]

RECURSIVE SelectCalls(_, _)
SelectCalls(segments, dialect) ==
    IF segments = << >> THEN << >>
    ELSE IF Head(segments).dialect = dialect
         THEN <<Head(segments).call>> \o SelectCalls(Tail(segments), dialect)
         ELSE SelectCalls(Tail(segments), dialect)

\* the three text parsers: each finds the calls written in its own dialect
parseXMLToolCalls(content) == SelectCalls(content.segments, "xml")

parseJSONToolCalls(content) == SelectCalls(content.segments, "json")

parseTextToolCalls(content) == SelectCalls(content.segments, "text")

\* Agent.extractToolCalls: the structured field if it is not empty, else the
\* parser of the agent's format
extractToolCalls(format, resp) ==
    IF Len(resp.ToolCalls) > 0 THEN resp.ToolCalls
    ELSE CASE format = "xml"  -> parseXMLToolCalls(resp.Message.content)
           [] format = "json" -> parseJSONToolCalls(resp.Message.content)
           [] format = "text" -> parseTextToolCalls(resp.Message.content)
           [] OTHER -> << >>

\* the loop condition of Chat: i < maxIterations
LoopContinuesOffByOne(i) == i <= maxIterations

LoopContinues(i) == i < maxIterations

\* len(toolCalls) == 0
NoToolCallsOrOne(toolCalls) == Len(toolCalls) <= 1

NoToolCalls(toolCalls) == Len(toolCalls) = 0

\* what executeToolCalls returns to Chat after a tool finished with outcome o
executeToolCallsErrPropagating(o) == o.err

executeToolCallsErr(o) == NoErr

\* the content of the tool-result message
ToolResultContentBare(name, o) == ResultText(o.result)

ToolResultContent(name, o) ==
    IF o.err # NoErr THEN ErrorExecutingTool(name, o.err) ELSE ResultText(o.result)

\* the tool-result message
ToolResultMsgUnnamed(call, o) ==
    Message("tool", ToolResultContent(call.name, o), "")

ToolResultMsg(call, o) ==
    Message("tool", ToolResultContent(call.name, o), call.name)

\* agent.ToolExecution; ran tells whether the tool itself was run
ToolExecution(call, o) ==
    [Name |-> call.name, Args |-> call.args, Result |-> o.result, Error |-> o.err,
     ran |-> o.ran]

ErrChatRequest == Err("chat request", <<"transport">>)

ErrMaxIterations == Err("max iterations reached without completion", << >>)

\* ctx is the context Chat was called with; atCancel is how many messages
\* and tool executions there were when it was cancelled
NoChat ==
    [ pc |-> "idle", i |-> 0, resp |-> ChatFailure, toolCalls |-> << >>, k |-> 0,
      requests |-> 0, replies |-> 0, tools |-> {}, executions |-> << >>, start |-> 0,
      ret |-> [content |-> Text(<< >>), err |-> NoErr],
      ctx |-> "live", atCancel |-> [messages |-> 0, executions |-> 0] ]

ChatReturns(c, content, err) ==
    [c EXCEPT !.pc = "returned", !.ret = [content |-> content, err |-> err]]

\* performChat: the request is sent and Chat waits for the backend
SendRequest(c) ==
    [c EXCEPT !.pc = "waiting", !.requests = @ + 1,
              !.tools = IF toolCallFormat = "native"
                        THEN AllFiltered(registry, disabledTools) ELSE {}]

\* the top of the for loop for iteration i
LoopTop(c) ==
    IF LoopContinues(c.i) THEN SendRequest(c)
    ELSE ChatReturns(c, Text(<< >>), ErrMaxIterations)

\* Agent.Chat up to its first request
Chat(userMessage) ==
    /\ chat.pc \in {"idle", "returned"}
    /\ messages' = Append(messages, Message("user", Text(<<Prose(userMessage)>>), ""))
    /\ chat' = LoopTop([NoChat EXCEPT !.start = Len(messages) + 1])
    /\ UNCHANGED <<toolCallFormat, disabledTools, backendStyle>>

\* Agent.Chat when the backend has answered: fail, finish, or start the tools
BackendReply(resp) ==
    /\ chat.pc = "waiting"
    /\ chat.ctx = "cancelled" => resp.failed
    /\ IF resp.failed
       THEN /\ chat' = ChatReturns([chat EXCEPT !.resp = resp, !.replies = @ + 1],
                                   Text(<< >>), ErrChatRequest)
            /\ UNCHANGED messages
       ELSE LET calls == extractToolCalls(toolCallFormat, resp)
                c == [chat EXCEPT !.resp = resp, !.replies = @ + 1, !.toolCalls = calls]
            IN  /\ messages' = Append(messages, resp.Message)
                /\ chat' = IF NoToolCalls(calls)
                           THEN ChatReturns(c, resp.Message.content, NoErr)
                           ELSE [c EXCEPT !.pc = "executing", !.k = 1]
    /\ UNCHANGED <<toolCallFormat, disabledTools, backendStyle>>

\* executeToolCalls when Registry.Execute has returned for call k: record the
\* execution, append the tool message, go on with the next call or the next
\* iteration
ToolDone(o) ==
    /\ chat.pc = "executing"
    /\ LET call == chat.toolCalls[chat.k]
           c == [chat EXCEPT !.executions = Append(@, ToolExecution(call, o))]
       IN  /\ messages' = Append(messages, ToolResultMsg(call, o))
           /\ chat' = IF executeToolCallsErr(o) # NoErr
                      THEN ChatReturns(c, Text(<< >>), executeToolCallsErr(o))
                      ELSE IF chat.k < Len(chat.toolCalls)
                           THEN [c EXCEPT !.k = @ + 1]
                           ELSE LoopTop([c EXCEPT !.i = @ + 1])
    /\ UNCHANGED <<toolCallFormat, disabledTools, backendStyle>>

(***************************************************************************)
(* The chat front-end: the chatModel as RunChat builds it                  *)
(***************************************************************************)
\* a nil pointer, a nil func, an absent request
Nil == 0

\* the fields of chatModel that decide what Update does; ctx is m.ctx, which
\* RunChat receives from the caller
NewChatModel ==
    [ waiting |-> FALSE, currentTask |-> Nil, messageQueue |-> << >>,
      pendingPermission |-> Nil, permissionMode |-> FALSE, searchMode |-> FALSE,
      ctx |-> "live", quit |-> FALSE ]

\* the parts that only the specifications of the concurrent components use
ConcurrentAtRest ==
    /\ client = Nil
    /\ progress = Nil
    /\ files = Nil
    /\ tracker = Nil

AuxAtRest ==
    /\ executor = Nil
    /\ session = Nil
    /\ benchmark = Nil
    /\ sample = Nil
    /\ ConcurrentAtRest

ChatAtRest ==
    /\ ui = NewChatModel
    /\ turns = << >>
    /\ inbox = << >>
    /\ requests = << >>
    /\ disk = << >>
    /\ journal = [messages |-> 0, calls |-> 0]

UiAtRest == ChatAtRest /\ AuxAtRest

\* the caller cancels the context of the Chat call in progress
Cancel ==
    /\ chat.pc \in {"waiting", "executing"}
    /\ chat.ctx = "live"
    /\ chat' = [chat EXCEPT !.ctx = "cancelled",
                            !.atCancel = [messages |-> Len(messages),
                                          executions |-> Len(chat.executions)]]
    /\ UNCHANGED <<messages, toolCallFormat, disabledTools, backendStyle>>

(***************************************************************************)
(* The gate on its own: any configuration, either checker, any call        *)
(***************************************************************************)
\* the longest always-allow list of a configuration
MaxPatterns == 1

PatternMenu ==
    { Pattern("*", EmptyStr, EmptyStr, TRUE, TRUE),
      Pattern(ShellToolName, EmptyStr, WordRm, FALSE, TRUE),
      Pattern("read_file", <<"*", ".", "g", "o">>, EmptyStr, FALSE, TRUE),
      Pattern("write_file", EmptyStr, EmptyStr, TRUE, FALSE) }

PatternLists ==
    UNION { [1..n -> PatternMenu] : n \in 0..MaxPatterns }

GateConfigs ==
    [ AutoApproveSafe        : BOOLEAN,
      AutoApproveRead        : BOOLEAN,
      RequireApprovalWrite   : BOOLEAN,
      RequireApprovalExecute : BOOLEAN,
      RequireApprovalNetwork : BOOLEAN,
      BlockedCommands        : {<< >>, <<CmdRmRf, CmdMkfs>>},
      AlwaysAllowPatterns    : PatternLists,
      RestrictToWorkingDir   : BOOLEAN ]

GateArgs(toolName) ==
    CASE toolName = "read_file" ->
            { Arg1("path", Str(PathInside)), Arg1("path", Str(PathOutside)) }
      [] toolName = "write_file" ->
            { Arg1("file_path", Str(PathInside)), Arg1("path", Str(PathDotDotName)) }
      [] toolName = ShellToolName ->
            { Arg1("command", Str(CmdLs)), Arg1("command", Str(CmdRmRf)),
              Arg1("command", Str(CmdSudoRmRf)), Arg1("command", Num(1)),
              Arg2("path", Str(PathInside), "command", Str(CmdRmRf)),
              Arg2("path", Str(WordRm), "command", Str(CmdLs)) }
      [] OTHER -> { NoArgs }

\* config.Config: the parts the tool commands read and write
EmptyConfig == [CustomTools |-> << >>, ModelAsTools |-> << >>, MCPServers |-> << >>]

\* the name of AskModelTool for a model
AskToolName == [llama |-> "ask_llama", qwen |-> "ask_qwen"]

Models == DOMAIN AskToolName

\* the tools each MCP server offers, under the names MCPToolWrapper gives them
McpToolNames == [fs |-> {"mcp_fs_read"}, git |-> {"mcp_git_log", "mcp_git_diff"}]

McpServerNames == DOMAIN McpToolNames

Range(seq) == {seq[j] : j \in 1..Len(seq)}

EnabledModels(cfg) == {m.ModelName : m \in {x \in Range(cfg.ModelAsTools) : x.Enabled}}

\* MCPToolRegistry.GetTools: the tools of all started servers
GetTools(clients) == UNION {McpToolNames[c] : c \in clients}

\* what setupTools registers, in its order: the built-ins, the enabled models,
\* the configuration's custom tools, the tools of the started MCP servers, each
\* behind a gate
SetupRegistry(cfg, clients) ==
    [n \in GetTools(clients) |-> Gated("mcp", "Network")]
    @@ [n \in Range(cfg.CustomTools) |-> Gated("custom", "Execute")]
    @@ [n \in {AskToolName[m] : m \in EnabledModels(cfg)} |-> Gated("ask", "Safe")]
    @@ [n \in BuiltinTools |-> Gated("builtin", ToolLevel[n])]

IdleRest ==
    /\ registry = EmptyRegistry
    /\ cfgStore = EmptyConfig
    /\ mcpServers = {}
    /\ messages = << >>
    /\ toolCallFormat = "text"
    /\ disabledTools = {}
    /\ backendStyle = "text"
    /\ chat = NoChat
    /\ incidents = 0
    /\ UiAtRest

InitGate ==
    /\ permissionConfig \in
           { NewProtectedToolConfig(c) : c \in GateConfigs \cup {NilConfig} }
    /\ checker \in {"auto", "chat"}
    /\ gate = GateIdle
    /\ IdleRest

NextGate ==
    \/ /\ \E t \in BuiltinTools : \E a \in GateArgs(t) : GateExecute(t, ToolLevel[t], a)
       /\ UNCHANGED <<registryVars, agentVars, uiVars, auxVars>>
    \/ CheckerAnswer /\ UNCHANGED <<registryVars, agentVars, uiVars, auxVars>>
    \/ GateReturn /\ UNCHANGED <<registryVars, agentVars, uiVars, auxVars>>

SpecGate == InitGate /\ [][NextGate]_vars

(***************************************************************************)
(* The agent with the startup registry and a backend that answers freely   *)
(***************************************************************************)
\* A run's backend answers with a final text, a failure, or the plain call
\* below as often as it likes.  Everything else is an incident: a response
\* with another call list, a failure of the plain call, a further Chat.
MaxIncidents == 1

PlainCall == Call("read_file", Arg1("path", Str(PathInside)))

OddCalls ==
    { Call("write_file", Arg1("file_path", Str(PathInside))),
      Call("no_such_tool", NoArgs),
      Call(ShellToolName, Arg1("command", Str(CmdRmRf))) }

CallLists == {<<PlainCall>>} \cup { <<c, PlainCall>> : c \in OddCalls }

\* how a backend of the given style writes a call list
Render(style, calls) ==
    IF style = "native" THEN ChatResponse(<<Prose("calling")>>, calls)
    ELSE ChatResponse([j \in 1..Len(calls) |-> Written(style, calls[j])], << >>)

FinalResponse == ChatResponse(<<Prose("done")>>, << >>)

\* the pairs of the agent's format and the dialect the model really writes
FormatAndStyle ==
    { <<"native", "native">>, <<"xml", "xml">>, <<"json", "json">>,
      <<"text", "text">>, <<"text", "native">>, <<"json", "xml">> }

InitAgent ==
    /\ permissionConfig = DefaultPermissionConfig
    /\ checker = "chat"
    /\ gate = GateIdle
    /\ registry = SetupRegistry(EmptyConfig, {})
    /\ cfgStore = EmptyConfig
    /\ mcpServers = {}
    /\ messages = << >>
    /\ \E fs \in FormatAndStyle : toolCallFormat = fs[1] /\ backendStyle = fs[2]
    /\ disabledTools = {"write_file"}
    /\ chat = NoChat
    /\ incidents = 0
    /\ UiAtRest

Spend(n) == incidents + n <= MaxIncidents /\ incidents' = incidents + n

NextAgent ==
    \/ /\ Chat("hi")
       /\ Spend(IF chat.pc = "idle" THEN 0 ELSE 1)
       /\ UNCHANGED <<gateVars, registryVars, uiVars, auxVars>>
    \/ /\ \E resp \in {ChatFailure, FinalResponse} : BackendReply(resp)
       /\ UNCHANGED <<incidents, gateVars, registryVars, uiVars, auxVars>>
    \/ /\ \E calls \in CallLists :
             /\ BackendReply(Render(backendStyle, calls))
             /\ Spend(IF calls = <<PlainCall>> THEN 0 ELSE 1)
       /\ UNCHANGED <<gateVars, registryVars, uiVars, auxVars>>
    \/ /\ chat.pc = "executing"
       /\ \E o \in RegistryExecute(registry, permissionConfig, checker,
                                   chat.toolCalls[chat.k].name,
                                   chat.toolCalls[chat.k].args) :
             /\ ToolDone(o)
             /\ Spend(IF chat.toolCalls = <<PlainCall>> /\ o.err # NoErr THEN 1 ELSE 0)
       /\ UNCHANGED <<gateVars, registryVars, uiVars, auxVars>>

SpecAgent == InitAgent /\ [][NextAgent]_vars

\* The agent when the caller may cancel the context of a Chat call.
InitCancel == InitAgent /\ toolCallFormat = "native"

NextCancel ==
    \/ NextAgent
    \/ Cancel /\ UNCHANGED <<incidents, gateVars, registryVars, uiVars, auxVars>>

SpecCancel == InitCancel /\ [][NextCancel]_vars

\* C17: once the context of a Chat call is cancelled the call executes no
\* further tool, appends no further message, and returns an error
C17_NoEffectsAfterCancel ==
    chat.ctx = "cancelled" =>
        /\ Len(chat.executions) = chat.atCancel.executions
        /\ Len(messages) = chat.atCancel.messages
        /\ chat.pc = "returned" => chat.ret.err # NoErr

(***************************************************************************)
(* Properties of the agent loop                                            *)
(***************************************************************************)
\* the positions of the current call's assistant messages
AssistantIdx ==
    { j \in 1..Len(messages) : j >= chat.start /\ chat.start > 0
                               /\ messages[j].role = "assistant" }

RECURSIVE LastAssistantUpTo(_)
\* the position of the current call's last assistant message at or before j,
\* 0 if none
LastAssistantUpTo(j) ==
    IF j = 0 \/ j < chat.start \/ chat.start = 0 THEN 0
    ELSE IF messages[j].role = "assistant" THEN j
    ELSE LastAssistantUpTo(j - 1)

LastAssistant == LastAssistantUpTo(Len(messages))

\* how many messages follow the last assistant message
BatchLen == IF LastAssistant = 0 THEN 0 ELSE Len(messages) - LastAssistant

\* the execution record behind the j-th message of the batch
BatchExec(j) == chat.executions[Len(chat.executions) - BatchLen + j]

BatchFailed == \E j \in 1..BatchLen : BatchExec(j).Error # NoErr

\* all tools of the last response are done
BatchDone == BatchLen > 0 /\ chat.pc # "executing"

\* ... and the backend has not answered since
BatchJustDone == BatchDone /\ chat.replies = Cardinality(AssistantIdx)

\* C1: in every call of Agent.Chat, whatever the backend answers and whatever
\* the tools do, at most 10 chat requests are sent to the backend.
C1_AtMostTenRequests == chat.requests <= 10

C1_Witness == chat.pc = "returned" /\ chat.requests = 10

\* C2: Agent.Chat returns successfully exactly when a backend response yields
\* zero extracted tool calls; what it returns is that response's assistant
\* content, the response's message is the last of the conversation, and no
\* request was sent after that response; a successful return has no other cause.
C2_SuccessIffNoToolCalls ==
    /\ (chat.pc = "returned" /\ chat.ret.err = NoErr) =>
          /\ chat.replies > 0 /\ ~chat.resp.failed
          /\ Len(extractToolCalls(toolCallFormat, chat.resp)) = 0
          /\ chat.ret.content = chat.resp.Message.content
          /\ messages[Len(messages)] = chat.resp.Message
          /\ chat.requests = chat.replies
    /\ (/\ chat.replies > 0 /\ ~chat.resp.failed
        /\ Len(extractToolCalls(toolCallFormat, chat.resp)) = 0) =>
          (chat.pc = "returned" /\ chat.ret.err = NoErr)

C2_Witness ==
    /\ chat.pc = "returned" /\ chat.ret.err = NoErr
    /\ chat.i >= 1
    /\ chat.ret.content = Text(<<Prose("done")>>)

\* every one of 10 assistant messages of the call was followed by a tool message
AllTenCalledTools ==
    /\ Cardinality(AssistantIdx) = 10
    /\ \A j \in AssistantIdx : j < Len(messages) /\ messages[j + 1].role = "tool"

\* C3: Agent.Chat returns an error if and only if a backend request failed or
\* all 10 iterations produced tool calls; the error is then the request error
\* or the cap error, and a failed request ends the call at once.  A tool
\* failure is neither.
C3_ErrorIffBackendFailedOrCap ==
    /\ chat.pc = "returned" =>
          /\ chat.ret.err # NoErr <=>
                ((chat.replies > 0 /\ chat.resp.failed) \/ AllTenCalledTools)
          /\ chat.ret.err \in {NoErr, ErrChatRequest, ErrMaxIterations}
          /\ chat.ret.err = ErrChatRequest <=> chat.resp.failed
    /\ (chat.replies > 0 /\ chat.resp.failed) => chat.pc = "returned"

C3_Witness ==
    /\ chat.pc = "returned" /\ chat.ret.err = ErrMaxIterations
    /\ \E j \in 1..Len(chat.executions) : chat.executions[j].Error # NoErr

\* a failed execution's message is 'Error executing tool <name>: <error>'
FailureReported ==
    \A j \in 1..BatchLen :
        BatchExec(j).Error # NoErr =>
            messages[LastAssistant + j] =
                Message("tool",
                        ErrorExecutingTool(BatchExec(j).Name, BatchExec(j).Error),
                        BatchExec(j).Name)

\* the calls after a failed one are executed too
RemainingExecuted ==
    /\ chat.pc = "executing" => BatchLen = chat.k - 1 /\ chat.k <= Len(chat.toolCalls)
    /\ BatchDone => BatchLen = Len(chat.toolCalls)

\* the next request is out and unanswered
NextRequestSent == chat.pc = "waiting" /\ chat.requests = chat.replies + 1

\* C4 as stated: a failed execution is reported in a tool message, the remaining
\* calls are executed, and then the next backend request is sent.
C4_FailureThenNextRequest ==
    /\ FailureReported
    /\ RemainingExecuted
    /\ (BatchJustDone /\ BatchFailed) => NextRequestSent

\* C4, amended: as above, but after the 10th iteration of the call no request
\* follows: the call returns the cap error.
C4_FailureThenNextRequestOrCap ==
    /\ FailureReported
    /\ RemainingExecuted
    /\ (BatchJustDone /\ BatchFailed) =>
          \/ NextRequestSent /\ Cardinality(AssistantIdx) < 10
          \/ /\ chat.pc = "returned" /\ chat.ret.err = ErrMaxIterations
             /\ Cardinality(AssistantIdx) = 10

C4_Witness ==
    /\ NextRequestSent
    /\ BatchLen = 2
    /\ BatchExec(1).Error # NoErr
    /\ BatchExec(2).ran

\* C5: for a response that yields calls c1..cn the executions are recorded in
\* that order, and directly after the assistant message the conversation has
\* exactly the tool messages of the calls done so far, the j-th with role tool
\* and the name of cj; when the batch is done there are n of them.
C5_ToolMessagesInCallOrder ==
    /\ BatchLen <= Len(chat.toolCalls)
    /\ BatchDone => BatchLen = Len(chat.toolCalls)
    /\ chat.pc = "executing" => BatchLen = chat.k - 1
    /\ \A j \in 1..BatchLen :
          /\ messages[LastAssistant + j].role = "tool"
          /\ messages[LastAssistant + j].toolName = chat.toolCalls[j].name
          /\ BatchExec(j).Name = chat.toolCalls[j].name
          /\ BatchExec(j).Args = chat.toolCalls[j].args
    /\ (chat.pc \in {"executing", "waiting"} /\ chat.replies > 0) =>
          /\ LastAssistant > 0
          /\ chat.toolCalls = extractToolCalls(toolCallFormat, chat.resp)
          /\ messages[LastAssistant] = chat.resp.Message

C5_Witness ==
    /\ BatchDone /\ BatchLen = 2
    /\ chat.toolCalls[1].name # chat.toolCalls[2].name
    /\ BatchExec(1).ran /\ BatchExec(2).ran

\* C10: a tool call naming a tool of the disabled list is never executed.
C10_DisabledToolNeverExecuted ==
    \A j \in 1..Len(chat.executions) :
        chat.executions[j].Name \in disabledTools => ~chat.executions[j].ran

(***************************************************************************)
(* Properties of the permission gate                                       *)
(***************************************************************************)
\* sub occurs in s
IsSubstring(s, sub) ==
    \E k \in 0..(Len(s) - Len(sub)) : SubSeq(s, k + 1, k + Len(sub)) = sub

\* the current call is a shell call whose command holds a blocked substring
CommandBlocked ==
    /\ gate.tool = ShellToolName
    /\ "command" \in DOMAIN gate.args
    /\ gate.args["command"].t = "str"
    /\ \E b \in 1..Len(permissionConfig.BlockedCommands) :
          IsSubstring(gate.args["command"].v, permissionConfig.BlockedCommands[b])

\* the configuration approves the level of the current call without asking
LevelAutoApproves ==
    \/ gate.level = "Safe" /\ permissionConfig.AutoApproveSafe
    \/ gate.level = "Read" /\ permissionConfig.AutoApproveRead
    \/ gate.level = "Write" /\ ~permissionConfig.RequireApprovalWrite
    \/ gate.level = "Execute" /\ ~permissionConfig.RequireApprovalExecute
    \/ gate.level = "Network" /\ ~permissionConfig.RequireApprovalNetwork

\* an always-allow pattern of the configuration matches the current call
PatternInvolved ==
    matchesAlwaysAllowPattern(permissionConfig, gate.tool, TargetPath(gate.args))

\* C6: under every configuration, a shell call whose command holds a blocked
\* substring does not invoke the tool and returns the blocked-command error.
C6_BlockedCommandNeverRuns ==
    (gate.pc # "idle" /\ CommandBlocked) =>
        /\ gate.invoked = << >>
        /\ gate.pc = "returned" => gate.ret.err.kind = "blocked command pattern detected"

\* C7: in a call whose level is not auto-approved and that no always-allow
\* pattern matches, the tool is invoked only if the checker was asked, once and
\* about this tool and level, and approved; if the checker denied, the call has
\* returned 'permission denied by user' and the tool was not invoked.
C7_AskedBeforeInvoked ==
    (gate.pc # "idle" /\ ~LevelAutoApproves /\ ~PatternInvolved) =>
        /\ gate.invoked # << >> =>
              /\ gate.asked = <<[tool |-> gate.tool, level |-> gate.level]>>
              /\ gate.answer = "approved"
        /\ gate.answer = "denied" =>
              /\ gate.pc = "returned"
              /\ gate.ret = [result |-> "", err |-> ErrDenied]
              /\ gate.invoked = << >>

C7_Witness ==
    /\ gate.pc = "returned" /\ ~LevelAutoApproves /\ ~PatternInvolved
    /\ gate.answer = "denied"
    /\ gate.level = "Execute"

\* the configuration's only always-allow entry is an enabled one for the shell
\* tool that carries a command-prefix pattern and nothing else
OnlyCommandPrefixEntry ==
    /\ Len(permissionConfig.AlwaysAllowPatterns) = 1
    /\ LET p == permissionConfig.AlwaysAllowPatterns[1] IN
          /\ p.Enabled /\ ~p.AlwaysAllow
          /\ p.Tool \in {"*", ShellToolName}
          /\ p.PathPattern = EmptyStr /\ p.CommandPattern # EmptyStr

\* the current call is a shell call with a command that would be asked about
ShellCallNeedingPrompt ==
    /\ gate.pc \in {"asking", "returned"}
    /\ gate.tool = ShellToolName
    /\ "command" \in DOMAIN gate.args /\ gate.args["command"].t = "str"
    /\ ~LevelAutoApproves /\ ~CommandBlocked

\* C11: an always-allow entry with only a command-prefix pattern suppresses the
\* prompt for a shell command (the checker is not asked and the tool runs) if
\* and only if the first whitespace-delimited word of the command equals the
\* pattern.
C11_CommandPrefixSuppressesIff ==
    (OnlyCommandPrefixEntry /\ ShellCallNeedingPrompt
     /\ ~permissionConfig.RestrictToWorkingDir) =>
        ((gate.asked = << >> /\ gate.invoked # << >>) <=>
            FirstField(gate.args["command"].v) =
                permissionConfig.AlwaysAllowPatterns[1].CommandPattern)

\* the current call has a string path or file_path argument
HasPathArg ==
    \/ "path" \in DOMAIN gate.args /\ gate.args["path"].t = "str"
    \/ "file_path" \in DOMAIN gate.args /\ gate.args["file_path"].t = "str"

\* the absolute form of p lies in the working directory: its components start
\* with the working directory's
ResolvesInside(p) ==
    LET tc == CleanComps(SplitSlash(Abs(p), EmptyStr), << >>, TRUE)
        wc == CleanComps(SplitSlash(WorkingDir, EmptyStr), << >>, TRUE)
    IN  Len(tc) >= Len(wc) /\ SubSeq(tc, 1, Len(wc)) = wc

\* C12: with restrictToWorkingDir on, a returned call whose path argument
\* resolves outside the working directory returned the outside-working-directory
\* error without invoking the tool, and one whose path resolves inside did not
\* return that error.
C12_OutsideRejectedInsidePasses ==
    (/\ gate.pc = "returned" /\ permissionConfig.RestrictToWorkingDir
     /\ HasPathArg /\ TargetPath(gate.args) # EmptyStr) =>
        LET target == TargetPath(gate.args) IN
        /\ ~ResolvesInside(target) =>
              gate.ret.err = ErrOutside(target) /\ gate.invoked = << >>
        /\ ResolvesInside(target) =>
              gate.ret.err.kind # "access denied: path is outside working directory"

\* the tool was invoked once, with the call's arguments, and the call returned
\* what the tool returned
InvokedOnceUnchanged ==
    /\ Len(gate.invoked) = 1
    /\ gate.invoked[1].args = gate.args
    /\ gate.ret = gate.invoked[1].ret
    /\ gate.asked = << >>

TargetRejected ==
    /\ permissionConfig.RestrictToWorkingDir
    /\ TargetPath(gate.args) # EmptyStr
    /\ checkWorkingDirRestriction(TargetPath(gate.args)) # NoErr

MaxConfigEntries == 2

CustomToolNames == {"gitstat", "read_file"}

DefaultModel == "qwen"

\* the registry still holds the built-in tool of that name
HasBuiltin(name) == name \in DOMAIN registry /\ registry[name].kind = "builtin"

\* AddCustomToolTool.Execute: registers the new CustomCommandTool as it is and
\* appends it to the configuration
AddCustomTool(name) ==
    /\ HasBuiltin("add_custom_tool")
    /\ Len(cfgStore.CustomTools) < MaxConfigEntries
    /\ registry' = Register(registry, name, Bare("custom"))
    /\ cfgStore' = [cfgStore EXCEPT !.CustomTools = Append(@, name)]
    /\ UNCHANGED mcpServers

\* RemoveCustomToolTool.Execute: unregisters the name, then drops it from the
\* configuration if it is there
RemoveCustomTool(name) ==
    /\ HasBuiltin("remove_custom_tool")
    /\ registry' = Unregister(registry, name)
    /\ cfgStore' = [cfgStore EXCEPT !.CustomTools = SelectSeq(@, LAMBDA t : t # name)]
    /\ UNCHANGED mcpServers

\* the tools of GetTools whose name starts with "mcp_" and the server's name
ToolsOfServer(clients, name) == GetTools(clients) \cap McpToolNames[name]

\* AddMCPServerTool.Execute: when the server starts, registers its tools as
\* they are; a permanent server is appended to the configuration
AddMCPServer(name, permanent, started) ==
    /\ HasBuiltin("add_mcp_server")
    /\ IF ~started THEN UNCHANGED <<registry, cfgStore, mcpServers>>
       ELSE /\ mcpServers' = mcpServers \cup {name}
            /\ registry' =
                 [n \in DOMAIN registry \cup ToolsOfServer(mcpServers', name) |->
                     IF n \in ToolsOfServer(mcpServers', name)
                     THEN Bare("mcp") ELSE registry[n]]
            /\ IF permanent
               THEN /\ Len(cfgStore.MCPServers) < MaxConfigEntries
                    /\ cfgStore' = [cfgStore EXCEPT !.MCPServers = Append(@, name)]
               ELSE UNCHANGED cfgStore

\* RemoveMCPServerTool.Execute: the configuration only
RemoveMCPServer(name) ==
    /\ HasBuiltin("remove_mcp_server")
    /\ cfgStore' = [cfgStore EXCEPT !.MCPServers = SelectSeq(@, LAMBDA t : t # name)]
    /\ UNCHANGED <<registry, mcpServers>>

EnabledEntry(model) == [ModelName |-> model, Enabled |-> TRUE]

\* /addtool <model>: nothing for an enabled model; else the configuration gets
\* the entry and, if it could be saved, the registry the AskModelTool as it is
AddToolCommand(model, saved) ==
    /\ model \notin EnabledModels(cfgStore)
    /\ Len(cfgStore.ModelAsTools) < MaxConfigEntries
    /\ cfgStore' = [cfgStore EXCEPT !.ModelAsTools = Append(@, EnabledEntry(model))]
    /\ registry' = IF saved THEN Register(registry, AskToolName[model], Bare("ask"))
                   ELSE registry
    /\ UNCHANGED mcpServers

RECURSIVE AddAll(_, _, _)
\* the loop of /addalltools over the models still to visit
AddAll(todo, cfg, reg) ==
    IF todo = {} THEN [cfg |-> cfg, reg |-> reg]
    ELSE LET m == CHOOSE x \in todo : TRUE IN
         AddAll(todo \ {m},
                [cfg EXCEPT !.ModelAsTools = Append(@, EnabledEntry(m))],
                Register(reg, AskToolName[m], Bare("ask")))

\* /addalltools: every model but the current one and the enabled ones
AddAllToolsCommand ==
    LET todo == (Models \ {DefaultModel}) \ EnabledModels(cfgStore)
        r == AddAll(todo, cfgStore, registry)
    IN  /\ Len(cfgStore.ModelAsTools) + Cardinality(todo) <= MaxConfigEntries
        /\ cfgStore' = r.cfg
        /\ registry' = r.reg
        /\ UNCHANGED mcpServers

RECURSIVE DisableFirst(_, _)
DisableFirst(entries, model) ==
    IF entries = << >> THEN << >>
    ELSE IF Head(entries).ModelName = model /\ Head(entries).Enabled
         THEN <<[Head(entries) EXCEPT !.Enabled = FALSE]>> \o Tail(entries)
         ELSE <<Head(entries)>> \o DisableFirst(Tail(entries), model)

\* /removetool <model>: disables the model's entry; the registry keeps the tool
RemoveToolCommand(model) ==
    /\ model \in EnabledModels(cfgStore)
    /\ cfgStore' = [cfgStore EXCEPT !.ModelAsTools = DisableFirst(@, model)]
    /\ UNCHANGED <<registry, mcpServers>>

StartConfigs ==
    [ CustomTools  : {<< >>, <<"gitstat">>},
      ModelAsTools : {<< >>, <<EnabledEntry("llama")>>},
      MCPServers   : {<< >>, <<"fs">>} ]

InitRegistry ==
    /\ permissionConfig = DefaultPermissionConfig
    /\ checker = "chat"
    /\ gate = GateIdle
    /\ cfgStore \in StartConfigs
    /\ mcpServers \in SUBSET Range(cfgStore.MCPServers)
    /\ registry = SetupRegistry(cfgStore, mcpServers)
    /\ messages = << >>
    /\ toolCallFormat = "text"
    /\ backendStyle = "text"
    /\ disabledTools = {}
    /\ chat = NoChat
    /\ incidents = 0
    /\ UiAtRest

NextRegistry ==
    \/ /\ \E n \in CustomToolNames : AddCustomTool(n)
       /\ UNCHANGED <<gateVars, agentVars, uiVars, auxVars>>
    \/ /\ \E n \in CustomToolNames : RemoveCustomTool(n)
       /\ UNCHANGED <<gateVars, agentVars, uiVars, auxVars>>
    \/ /\ \E n \in McpServerNames : \E p, st \in BOOLEAN : AddMCPServer(n, p, st)
       /\ UNCHANGED <<gateVars, agentVars, uiVars, auxVars>>
    \/ /\ \E n \in McpServerNames : RemoveMCPServer(n)
       /\ UNCHANGED <<gateVars, agentVars, uiVars, auxVars>>
    \/ /\ \E m \in Models : \E saved \in BOOLEAN : AddToolCommand(m, saved)
       /\ UNCHANGED <<gateVars, agentVars, uiVars, auxVars>>
    \/ AddAllToolsCommand /\ UNCHANGED <<gateVars, agentVars, uiVars, auxVars>>
    \/ /\ \E m \in Models : RemoveToolCommand(m)
       /\ UNCHANGED <<gateVars, agentVars, uiVars, auxVars>>

SpecRegistry == InitRegistry /\ [][NextRegistry]_vars

\* C9: every tool of the registry is behind a permission gate, and a custom
\* tool's gate has the Execute level.
C9_EveryToolGated ==
    \A n \in DOMAIN registry :
        /\ registry[n].wrapped
        /\ registry[n].kind = "custom" => registry[n].level = "Execute"

(***************************************************************************)
(* The chat front-end: chatModel.Update, chatModel.chat and the inline     *)
(* permission checker                                                      *)
(***************************************************************************)
\* how many chat messages the user submits in a run
MaxInputs == 3

\* how many tool calls the turns of a run make
MaxToolCalls == 2

\* the n-th line the user types as a chat message
Digits == <<"0", "1", "2", "3", "4", "5", "6", "7", "8", "9">>

MessageText(n) == <<"m", Digits[n + 1]>>

ClearQueueName == <<"c", "l", "e", "a", "r", "-", "q", "u", "e", "u", "e">>

ClearQueueInput == <<Slash>> \o ClearQueueName

HelpInput == <<Slash, "h", "e", "l", "p">>

\* a line that starts with the command prefix and names no command
UnknownCommandInput == <<Slash, "x">>

\* CommandRegistry.Execute: isCmd, and the chatModel the command leaves
Execute(input, m) ==
    IF ~HasPrefix(input, <<Slash>>) THEN [isCmd |-> FALSE, m |-> m]
    ELSE LET cmdName == Tail(FirstField(input))
         IN  [isCmd |-> TRUE,
              m |-> IF cmdName = ClearQueueName
                    THEN [m EXCEPT !.messageQueue = << >>] ELSE m]

\* the closure chatModel.chat returns, before Bubble Tea runs it; currentTask
\* is the field of the chatModel the closure captured
NewTurn(userMsg) ==
    [msg |-> userMsg, pc |-> "scheduled", ctx |-> "live", currentTask |-> Nil]

\* m.messageQueue = append(m.messageQueue, userMsg)
EnqueueFront(queue, userMsg) == <<userMsg>> \o queue

Enqueue(queue, userMsg) == Append(queue, userMsg)

\* whether Enter on a chat message queues it instead of starting a turn
Queues(m) == m.waiting

\* queuedMsg := m.messageQueue[0]
NextQueuedLast(queue) == queue[Len(queue)]

NextQueued(queue) == Head(queue)

\* m.messageQueue = m.messageQueue[1:]
RestOfQueue(queue) == Tail(queue)

\* the chatModel the program holds once the closure of turn t has stored its
\* cancel function: Update has a value receiver, so the closure captured
\* Update's own copy and the program's chatModel does not change
HeldSharesCopy(m, t) == [m EXCEPT !.currentTask = t]

HeldAfterChatStarts(m, t) == m

\* taskCtx.Done() is closed: the turn was cancelled or its parent m.ctx was
CtxDoneAlways(t) == TRUE

CtxDone(t) == turns[t].ctx = "cancelled" \/ ui.ctx = "cancelled"

InPermissionMode == ui.permissionMode /\ ui.pendingPermission # Nil

Submitted == journal.messages

\* Update(tea.KeyMsg) for Enter with the textarea holding input (non-empty)
KeyEnter(input) ==
    /\ ~ui.quit
    /\ LET m == ui
           x == Execute(input, m)
       IN  IF InPermissionMode
           THEN ui' = m /\ UNCHANGED <<turns, journal>>
           ELSE IF m.searchMode
           THEN ui' = [m EXCEPT !.searchMode = FALSE] /\ UNCHANGED <<turns, journal>>
           ELSE IF x.isCmd
           THEN ui' = x.m /\ UNCHANGED <<turns, journal>>
           ELSE /\ Submitted < MaxInputs
                /\ journal' = [journal EXCEPT !.messages = @ + 1]
                /\ IF Queues(m)
                   THEN /\ ui' = [m EXCEPT !.messageQueue = Enqueue(@, input)]
                        /\ UNCHANGED turns
                   ELSE /\ ui' = [m EXCEPT !.waiting = TRUE]
                        /\ turns' = Append(turns, NewTurn(input))
    /\ UNCHANGED <<inbox, requests, disk>>

\* Update(tea.KeyMsg) for Esc outside permission mode, the textarea holding
\* typed (possibly empty)
KeyEsc(typed) ==
    /\ ~ui.quit
    /\ ~InPermissionMode
    /\ LET m == ui IN
       IF m.searchMode
       THEN ui' = [m EXCEPT !.searchMode = FALSE] /\ UNCHANGED turns
       ELSE IF m.waiting /\ m.currentTask # Nil
       THEN LET cancelled == [turns EXCEPT ![m.currentTask].ctx = "cancelled"]
                interruptMsg == IF m.messageQueue # << >>
                                THEN NextQueued(m.messageQueue) ELSE typed
                rest == IF m.messageQueue # << >>
                        THEN RestOfQueue(m.messageQueue) ELSE m.messageQueue
            IN  IF interruptMsg # EmptyStr
                THEN /\ ui' = [m EXCEPT !.currentTask = Nil, !.messageQueue = rest]
                     /\ turns' = Append(cancelled, NewTurn(interruptMsg))
                ELSE /\ ui' = [m EXCEPT !.currentTask = Nil, !.waiting = FALSE]
                     /\ turns' = cancelled
       ELSE ui' = [m EXCEPT !.quit = TRUE] /\ UNCHANGED turns
    /\ UNCHANGED <<inbox, requests, disk, journal>>

\* Update(tea.KeyMsg) for Ctrl-C
KeyCtrlC ==
    /\ ~ui.quit
    /\ LET m == ui IN
       ui' = IF InPermissionMode THEN m
             ELSE IF m.searchMode THEN [m EXCEPT !.searchMode = FALSE]
             ELSE [m EXCEPT !.quit = TRUE]
    /\ UNCHANGED <<turns, inbox, requests, disk, journal>>

\* Update(tea.KeyMsg) for Ctrl-R
KeyCtrlR ==
    /\ ~ui.quit
    /\ LET m == ui IN
       ui' = IF InPermissionMode \/ m.waiting THEN m
             ELSE [m EXCEPT !.searchMode = ~m.searchMode]
    /\ UNCHANGED <<turns, inbox, requests, disk, journal>>

\* fmt.Sprintf("Args: %v", args): a Go map prints its keys in sorted order
KeyOrder == <<"command", "file_path", "path">>

KeyChars ==
    [ command   |-> <<"c", "o", "m", "m", "a", "n", "d">>,
      file_path |-> <<"f", "i", "l", "e", "_", "p", "a", "t", "h">>,
      path      |-> <<"p", "a", "t", "h">> ]

ValueChars(v) == IF v.t = "str" THEN v.v ELSE <<Digits[v.v + 1]>>

RECURSIVE MapEntries(_, _)
MapEntries(args, j) ==
    IF j > Len(KeyOrder) THEN << >>
    ELSE LET k == KeyOrder[j]
             rest == MapEntries(args, j + 1)
         IN  IF k \notin DOMAIN args THEN rest
             ELSE LET entry == KeyChars[k] \o <<":">> \o ValueChars(args[k])
                  IN  IF rest = << >> THEN entry ELSE entry \o <<Space>> \o rest

Details(args) ==
    <<"A", "r", "g", "s", ":", " ", "m", "a", "p", "[">> \o MapEntries(args, 1) \o <<"]">>

Newline == "\n"

\* strings.SplitN(s, sep, 2)[1] when s contains sep
RECURSIVE AfterFirst(_, _)
AfterFirst(s, sep) ==
    IF HasPrefix(s, sep) THEN SubSeq(s, Len(sep) + 1, Len(s))
    ELSE AfterFirst(Tail(s), sep)

\* strings.Split(s, "\n")[0]
RECURSIVE FirstLine(_)
FirstLine(s) ==
    IF s = EmptyStr \/ Head(s) = Newline THEN EmptyStr
    ELSE <<Head(s)>> \o FirstLine(Tail(s))

\* strings.TrimSpace on a line without tabs
RECURSIVE TrimRight(_)
TrimRight(s) ==
    IF s # EmptyStr /\ s[Len(s)] = Space THEN TrimRight(SubSeq(s, 1, Len(s) - 1)) ELSE s

TrimSpace(s) == TrimRight(SkipSpaces(s))

\* strings.Fields
RECURSIVE Fields(_)
Fields(s) ==
    LET t == SkipSpaces(s) IN
    IF t = EmptyStr THEN << >>
    ELSE <<TakeWord(t)>> \o Fields(SubSeq(t, Len(TakeWord(t)) + 1, Len(t)))

MarkerFile == <<"F", "i", "l", "e", ":", " ">>

MarkerDirectory == <<"D", "i", "r", "e", "c", "t", "o", "r", "y", ":", " ">>

MarkerPath == <<"P", "a", "t", "h", ":", " ">>

MarkerCommand == <<"C", "o", "m", "m", "a", "n", "d", ":", " ">>

StrContains(s, sub) == \E i \in 0..(Len(s) - Len(sub)) : SubSeq(s, i + 1, i + Len(sub)) = sub

LooksLikePath(arg) ==
    \/ HasPrefix(arg, <<"/">>) \/ HasPrefix(arg, <<".", "/">>)
    \/ HasPrefix(arg, <<".", ".", "/">>) \/ HasPrefix(arg, <<"~">>)

extractPathFromDetails(tool, details) ==
    IF tool \in {"read_file", "write_file", "list_directory"}
    THEN IF StrContains(details, MarkerFile)
         THEN TrimSpace(FirstLine(AfterFirst(details, MarkerFile)))
         ELSE IF StrContains(details, MarkerDirectory)
         THEN TrimSpace(FirstLine(AfterFirst(details, MarkerDirectory)))
         ELSE IF StrContains(details, MarkerPath)
         THEN TrimSpace(FirstLine(AfterFirst(details, MarkerPath)))
         ELSE EmptyStr
    ELSE IF tool = "run_command" /\ StrContains(details, MarkerCommand)
    THEN LET words == Fields(FirstLine(AfterFirst(details, MarkerCommand)))
             hits == { j \in 1..Len(words) : LooksLikePath(words[j]) }
         IN  IF hits = {} THEN EmptyStr ELSE words[Min(hits)]
    ELSE EmptyStr

extractCommandFromDetails(details) ==
    IF StrContains(details, MarkerCommand)
    THEN FirstField(FirstLine(AfterFirst(details, MarkerCommand)))
    ELSE EmptyStr

\* permissionResponse
Response(approved, alwaysTool, alwaysCommand, alwaysPath) ==
    [ approved |-> approved, alwaysTool |-> alwaysTool,
      alwaysCommand |-> alwaysCommand, alwaysPath |-> alwaysPath ]

\* the permissionResponse Update sends for a key pressed in permission mode
KeyResponse ==
    [ y   |-> Response(TRUE, FALSE, FALSE, FALSE),
      n   |-> Response(FALSE, FALSE, FALSE, FALSE),
      a   |-> Response(TRUE, TRUE, FALSE, FALSE),
      c   |-> Response(TRUE, FALSE, TRUE, FALSE),
      p   |-> Response(TRUE, FALSE, FALSE, TRUE),
      esc |-> Response(FALSE, FALSE, FALSE, FALSE) ]

PermissionKeys == DOMAIN KeyResponse

IsUpgrade(resp) == resp.alwaysTool \/ resp.alwaysCommand \/ resp.alwaysPath

\* savePermissionPattern up to the duplicate check: the pattern to store, or
\* NoPattern for the combination it does not save
NoPattern == [none |-> TRUE]

NewPattern(tool, details, targetPath, resp) ==
    IF resp.alwaysTool THEN Pattern(tool, EmptyStr, EmptyStr, TRUE, TRUE)
    ELSE IF resp.alwaysCommand /\ tool = "run_command"
    THEN LET command == extractCommandFromDetails(details)
         IN  IF command # EmptyStr THEN Pattern(tool, EmptyStr, command, FALSE, TRUE)
             ELSE Pattern(tool, EmptyStr, EmptyStr, TRUE, TRUE)
    ELSE IF resp.alwaysPath /\ targetPath # EmptyStr
    THEN Pattern(tool, targetPath, EmptyStr, FALSE, TRUE)
    ELSE NoPattern

\* the duplicate check of savePermissionPattern
AlreadyStored(patterns, pattern) ==
    \E j \in 1..Len(patterns) :
        /\ patterns[j].Tool = pattern.Tool
        /\ patterns[j].PathPattern = pattern.PathPattern
        /\ patterns[j].CommandPattern = pattern.CommandPattern
        /\ patterns[j].AlwaysAllow = pattern.AlwaysAllow

\* savePermissionPattern: the list in the file afterwards; io is whether
\* config.Load and cfg.Save both succeeded
savePermissionPattern(patterns, tool, details, targetPath, resp, io) ==
    LET pattern == NewPattern(tool, details, targetPath, resp) IN
    IF ~io \/ pattern = NoPattern \/ AlreadyStored(patterns, pattern) THEN patterns
    ELSE Append(patterns, pattern)

\* the messages other goroutines send to the program
ResponseMsg(t) == [type |-> "responseMsg", id |-> t]

PermissionRequestMsg(r) == [type |-> "permissionRequestMsg", id |-> r]

\* the permissionRequest RequestPermission builds; response is its channel of
\* capacity one
NewRequest(t, tool, level, args) ==
    [ turn |-> t, toolName |-> tool, level |-> level, details |-> Details(args),
      targetPath |-> extractPathFromDetails(tool, Details(args)),
      response |-> << >> ]

\* a request whose RequestPermission has returned: nothing reads its channel
Abandoned == [abandoned |-> TRUE]

\* Update(tea.KeyMsg) in permission mode for one of the keys it answers to
PermissionKey(k) ==
    /\ ~ui.quit
    /\ InPermissionMode
    /\ requests' = IF requests[ui.pendingPermission] = Abandoned THEN requests
                   ELSE [requests EXCEPT ![ui.pendingPermission].response =
                                             Append(@, KeyResponse[k])]
    /\ ui' = [ui EXCEPT !.pendingPermission = Nil, !.permissionMode = FALSE]
    /\ UNCHANGED <<turns, inbox, disk, journal>>

\* Update(permissionRequestMsg)
HandlePermissionRequest ==
    /\ ~ui.quit
    /\ inbox # << >> /\ Head(inbox).type = "permissionRequestMsg"
    /\ ui' = [ui EXCEPT !.pendingPermission = Head(inbox).id, !.permissionMode = TRUE]
    /\ inbox' = Tail(inbox)
    /\ UNCHANGED <<turns, requests, disk, journal>>

\* Update(responseMsg)
HandleResponse ==
    /\ ~ui.quit
    /\ inbox # << >> /\ Head(inbox).type = "responseMsg"
    /\ inbox' = Tail(inbox)
    /\ LET m == [ui EXCEPT !.waiting = FALSE] IN
       IF m.messageQueue # << >>
       THEN /\ ui' = [m EXCEPT !.messageQueue = RestOfQueue(@), !.waiting = TRUE]
            /\ turns' = Append(turns, NewTurn(NextQueued(m.messageQueue)))
       ELSE ui' = m /\ UNCHANGED turns
    /\ UNCHANGED <<requests, disk, journal>>

\* the closure of chatModel.chat starts: taskCtx is made, cancel is stored,
\* Agent.Chat is called
TurnRun(t) ==
    /\ ~ui.quit
    /\ turns[t].pc = "scheduled"
    /\ turns' = [turns EXCEPT ![t].pc = "running", ![t].currentTask = t]
    /\ ui' = HeldAfterChatStarts(ui, t)
    /\ UNCHANGED <<inbox, requests, disk, journal>>

\* Agent.Chat of turn t executes a tool call: the gate decides, and when it
\* asks, RequestPermission builds the request and sends it to the program
TurnToolCall(t, tool, args) ==
    /\ ~ui.quit
    /\ turns[t].pc = "running"
    /\ journal.calls < MaxToolCalls
    /\ GateExecute(tool, ToolLevel[tool], args)
    /\ journal' = [journal EXCEPT !.calls = @ + 1]
    /\ IF gate'.pc = "asking"
       THEN /\ requests' = Append(requests, NewRequest(t, tool, ToolLevel[tool], args))
            /\ inbox' = Append(inbox, PermissionRequestMsg(Len(requests) + 1))
       ELSE UNCHANGED <<requests, inbox>>
    /\ UNCHANGED <<ui, turns, disk>>

\* the request the gate call in progress is blocked on
CurrentRequest == Len(requests)

\* program.Send has returned: the program took the message
Sent(r) == \A j \in 1..Len(inbox) : inbox[j] # PermissionRequestMsg(r)

\* the select of RequestPermission: a response on the channel, or ctx.Done()
RequestPermissionReturns(io) ==
    /\ ~ui.quit
    /\ gate.pc = "asking"
    /\ Sent(CurrentRequest)
    /\ LET r == CurrentRequest
           req == requests[r]
       IN  \/ /\ req.response # << >>
              /\ LET resp == Head(req.response)
                     answer == IF resp.approved THEN "approved" ELSE "denied"
                 IN  /\ requests' = [requests EXCEPT ![r] = Abandoned]
                     /\ disk' = IF IsUpgrade(resp)
                                THEN savePermissionPattern(disk, req.toolName, req.details,
                                                           req.targetPath, resp, io)
                                ELSE disk
                     /\ GateResume(answer)
           \/ /\ CtxDone(req.turn)
              /\ requests' = [requests EXCEPT ![r] = Abandoned]
              /\ GateResume("error")
              /\ UNCHANGED disk
    /\ UNCHANGED <<ui, turns, inbox, journal>>

\* Agent.Chat of turn t returns and the closure returns its responseMsg
TurnReturn(t) ==
    /\ ~ui.quit
    /\ turns[t].pc = "running"
    /\ gate.pc = "idle"
    /\ turns' = [turns EXCEPT ![t].pc = "returned", ![t].currentTask = Nil]
    /\ inbox' = Append(inbox, ResponseMsg(t))
    /\ UNCHANGED <<ui, requests, disk, journal>>

\* the signal handler cancels the context RunChat was given
Signal ==
    /\ ui.ctx = "live"
    /\ ~ui.quit
    /\ ui' = [ui EXCEPT !.ctx = "cancelled"]
    /\ UNCHANGED <<turns, inbox, requests, disk, journal>>

\* setupTools: the PermissionConfig the gates of a new process share
toolPermConfig(cfg) ==
    [ AutoApproveSafe        |-> cfg.AutoApproveSafe,
      AutoApproveRead        |-> cfg.AutoApproveRead,
      RequireApprovalWrite   |-> cfg.RequireApprovalWrite,
      RequireApprovalExecute |-> cfg.RequireApprovalExecute,
      RequireApprovalNetwork |-> cfg.RequireApprovalNetwork,
      BlockedCommands        |-> cfg.BlockedCommands,
      AlwaysAllowPatterns    |-> << >>,
      RestrictToWorkingDir   |-> FALSE ]

\* the program has quit, which ends the process and its goroutines, and the
\* user starts llemecode again
Restart ==
    /\ ui.quit
    /\ permissionConfig' = toolPermConfig(permissionConfig)
    /\ gate' = GateIdle
    /\ ui' = NewChatModel
    /\ turns' = << >>
    /\ inbox' = << >>
    /\ requests' = << >>
    /\ UNCHANGED <<checker, disk, journal>>

\* the tool calls the turns of a run make
EchoCommandRm ==
    <<"e", "c", "h", "o", " ">> \o MarkerCommand \o WordRm \o <<" ", "-", "f">>

UiCalls ==
    { <<ShellToolName, Arg1("command", Str(CmdLs))>>,
      <<ShellToolName, Arg1("command", Str(EchoCommandRm))>>,
      <<"write_file", Arg1("file_path", Str(PathInside))>> }

UserLines ==
    { MessageText(Submitted + 1), ClearQueueInput, HelpInput, UnknownCommandInput }

InitUI ==
    /\ permissionConfig = toolPermConfig(DefaultPermissionConfig)
    /\ checker = "chat"
    /\ gate = GateIdle
    /\ registry = EmptyRegistry
    /\ cfgStore = EmptyConfig
    /\ mcpServers = {}
    /\ messages = << >>
    /\ toolCallFormat = "text"
    /\ disabledTools = {}
    /\ backendStyle = "text"
    /\ chat = NoChat
    /\ incidents = 0
    /\ UiAtRest

Turns == 1..Len(turns)

\* what the user does
UserStep ==
    /\ \/ \E input \in UserLines : KeyEnter(input)
       \/ \E typed \in {EmptyStr, MessageText(0)} : KeyEsc(typed)
       \/ KeyCtrlC
       \/ KeyCtrlR
    /\ UNCHANGED <<gateVars, registryVars, agentVars, auxVars>>

\* the user answers the prompt on the screen
UserAnswers ==
    /\ \E k \in PermissionKeys : PermissionKey(k)
    /\ UNCHANGED <<gateVars, registryVars, agentVars, auxVars>>

\* the program's event loop hands the next message to Update
ProgramStep ==
    /\ HandlePermissionRequest \/ HandleResponse
    /\ UNCHANGED <<gateVars, registryVars, agentVars, auxVars>>

\* the goroutine of a turn starts Agent.Chat or returns from it
TurnStep ==
    /\ \E t \in Turns : TurnRun(t) \/ TurnReturn(t)
    /\ UNCHANGED <<gateVars, registryVars, agentVars, auxVars>>

\* a tool call of the turn in progress begins
ToolCallStep ==
    /\ \E t \in Turns : \E c \in UiCalls : TurnToolCall(t, c[1], c[2])
    /\ UNCHANGED <<registryVars, agentVars, auxVars>>

\* a tool call of the turn in progress goes on after its prompt, or returns
GateStep ==
    \/ /\ \E io \in BOOLEAN : RequestPermissionReturns(io)
       /\ UNCHANGED <<registryVars, agentVars, auxVars>>
    \/ ~ui.quit /\ GateReturn /\ UNCHANGED <<registryVars, agentVars, uiVars, auxVars>>

NextUI ==
    \/ UserStep
    \/ UserAnswers
    \/ ProgramStep
    \/ TurnStep
    \/ ToolCallStep
    \/ GateStep
    \/ Signal /\ UNCHANGED <<gateVars, registryVars, agentVars, auxVars>>
    \/ Restart /\ UNCHANGED <<registryVars, agentVars, auxVars>>

SpecUI == InitUI /\ [][NextUI]_vars

\* The same front-end when goroutines and the event loop keep running and
\* the user answers every prompt, so that each turn returns.
SpecUIFair ==
    /\ SpecUI
    /\ WF_vars(TurnStep) /\ WF_vars(GateStep) /\ WF_vars(ProgramStep)
    /\ WF_vars(UserAnswers)

(***************************************************************************)
(* Properties of the chat front-end                                        *)
(***************************************************************************)
\* the turns whose Agent.Chat call has started and not returned
Executing == { t \in Turns : turns[t].pc = "running" }

\* C13: at every moment at most one Agent.Chat call is executing on the
\* conversation, whatever the user types, whenever turns complete
C13_AtMostOneChatExecuting == Cardinality(Executing) <= 1

\* a second turn executes while a further message waits in the queue
C13_Witness ==
    /\ \E t \in Executing : t >= 2
    /\ ui.messageQueue # << >>

\* the place of a chat message among the chat messages the user submitted
Number(msg) == CHOOSE n \in 0..9 : msg = MessageText(n)

Increasing(numbers) ==
    \A j, k \in 1..Len(numbers) : j < k => numbers[j] < numbers[k]

StartedThenQueued ==
    [t \in Turns |-> Number(turns[t].msg)]
        \o [j \in 1..Len(ui.messageQueue) |-> Number(ui.messageQueue[j])]

IsCommandLine(input) == HasPrefix(input, <<Slash>>)

\* no command line is queued or started as a turn, and the turns started so
\* far followed by the queue are in submission order without repetition
QueueInOrder ==
    /\ \A j \in 1..Len(ui.messageQueue) : ~IsCommandLine(ui.messageQueue[j])
    /\ \A t \in Turns : ~IsCommandLine(turns[t].msg)
    /\ Increasing(StartedThenQueued)

\* Enter on a line while a turn is in progress: a chat message goes to the
\* end of the queue, a command runs at once and nothing is queued or started
EnterWhileWaiting ==
    \A input \in UserLines :
        (ui.waiting /\ ~InPermissionMode /\ KeyEnter(input)) =>
            /\ turns' = turns
            /\ ~IsCommandLine(input) => ui'.messageQueue = Append(ui.messageQueue, input)
            /\ IsCommandLine(input) =>
                   ui'.messageQueue = IF input = ClearQueueInput THEN << >>
                                      ELSE ui.messageQueue

\* C14: input submitted while a turn is in progress is appended to the queue
\* unless it begins with the command prefix, in which case it executes at once
\* and is never queued; queued messages are started as turns in the order
\* they were submitted, each at most once
C14_QueuedInSubmissionOrder == []QueueInOrder /\ [][EnterWhileWaiting]_vars

\* the second message was queued and has been started, the third one waits
C14_Witness ==
    /\ Len(turns) = 2 /\ turns[2].pc = "running"
    /\ ui.messageQueue = <<MessageText(3)>>
    /\ journal.messages = 3

Started(n) == \E t \in Turns : turns[t].msg = MessageText(n)

InQueue(n) == \E j \in 1..Len(ui.messageQueue) : ui.messageQueue[j] = MessageText(n)

\* Update(responseMsg) with a non-empty queue removes the oldest message and
\* starts it as the next turn
ResponseStartsOldest ==
    (ProgramStep /\ HandleResponse /\ ui.messageQueue # << >>) =>
        /\ ui'.messageQueue = Tail(ui.messageQueue)
        /\ turns' = Append(turns, NewTurn(Head(ui.messageQueue)))
        /\ ui'.waiting

InterruptInFlight ==
    /\ Executing # {}
    /\ UserStep
    /\ \E typed \in {EmptyStr, MessageText(0)} : KeyEsc(typed)

\* C16: a user interrupt issued while a turn is in flight cancels that turn's
\* context; then the oldest queued message, if there is one, is started as
\* the next turn, and otherwise the UI is idle and still running
C16_InterruptCancelsTurn ==
    [][InterruptInFlight =>
          /\ \A t \in Executing : turns'[t].ctx = "cancelled"
          /\ ~ui'.quit
          /\ IF ui.messageQueue # << >>
             THEN /\ ui'.messageQueue = Tail(ui.messageQueue)
                  /\ turns'[Len(turns')].msg = Head(ui.messageQueue)
                  /\ turns'[Len(turns')].pc = "scheduled"
             ELSE ~ui'.waiting]_vars

\* the gate call in progress is blocked in RequestPermission
Blocked == gate.pc = "asking" /\ ~ui.quit

\* the user's reply to the request of the blocked gate call is on its channel
Replied == requests[CurrentRequest].response # << >>

\* the context of the turn that made the request is cancelled
TurnCancelled ==
    \/ turns[requests[CurrentRequest].turn].ctx = "cancelled"
    \/ ui.ctx = "cancelled"

\* a blocked gate call goes on only on a reply or a cancellation, and with
\* exactly that: the tool runs on approval, and is not run on a denial or on
\* a cancellation, which come back as the matching error
ResumesOnlyWithAnswer ==
    (Blocked /\ gate'.pc # "asking" /\ ~ui'.quit) =>
        /\ Replied \/ TurnCancelled
        /\ \/ /\ Replied /\ Head(requests[CurrentRequest].response).approved
              /\ gate'.answer = "approved" /\ Len(gate'.invoked) = 1
           \/ /\ Replied /\ ~Head(requests[CurrentRequest].response).approved
              /\ gate'.answer = "denied" /\ gate'.invoked = << >>
              /\ gate'.ret.err = ErrDenied
           \/ /\ TurnCancelled
              /\ gate'.answer = "error" /\ gate'.invoked = << >>
              /\ gate'.ret.err.kind = "permission check failed"

StoredPatternCovers(pattern, tool, args) ==
    /\ pattern.Enabled
    /\ pattern.Tool = tool
    /\ \/ pattern.AlwaysAllow
       \/ /\ pattern.CommandPattern # EmptyStr
          /\ IsStrArg(args, "command")
          /\ FirstField(args["command"].v) = pattern.CommandPattern
       \/ /\ pattern.PathPattern # EmptyStr
          /\ TargetPath(args) = pattern.PathPattern

\* C19: once an always-allow upgrade has been stored, no later gate call that
\* the stored pattern is for asks for permission, in the same session or
\* after a restart
C19_StoredPatternSuppressesPrompt ==
    gate.pc = "asking" =>
        \A j \in 1..Len(disk) : ~StoredPatternCovers(disk[j], gate.tool, gate.args)

\* RequestPermission takes an always-allow upgrade from the channel, and the
\* configuration file can be read and written
UpgradeTaken ==
    /\ Blocked /\ Replied
    /\ IsUpgrade(Head(requests[CurrentRequest].response))
    /\ GateStep /\ RequestPermissionReturns(TRUE)
    /\ gate'.answer = "approved"

\* the file then holds a pattern for the tool of the request, and the list
\* has grown by one entry at its end or, if it held the entry, not at all
UpgradeStored ==
    UpgradeTaken =>
        /\ \E j \in 1..Len(disk') : disk'[j].Tool = requests[CurrentRequest].toolName
        /\ Len(disk') <= Len(disk) + 1
        /\ SubSeq(disk', 1, Len(disk)) = disk

NoEqualEntries == \A j, k \in 1..Len(disk) : j < k => disk[j] # disk[k]

\* C20: every always-allow upgrade reply reaches the configuration and leaves
\* a pattern for it in the persisted list; the upgrade appends exactly one
\* entry unless the list already has it, so the list never holds two equal
\* entries
C20_UpgradePersistedOnce == [][UpgradeStored]_vars /\ []NoEqualEntries

\* RequestPermission takes the reply 'always allow this command' to a
\* prompt for run_command, and the configuration file can be read and written
CommandUpgradeTaken ==
    /\ Blocked /\ Replied
    /\ requests[CurrentRequest].toolName = "run_command"
    /\ IsStrArg(gate.args, "command")
    /\ Head(requests[CurrentRequest].response) = KeyResponse["c"]
    /\ GateStep /\ RequestPermissionReturns(TRUE)

\* every entry that the step adds to the file is restricted to the first
\* word of the command and does not allow the whole tool
CommandPatternStored ==
    CommandUpgradeTaken =>
        \A j \in Len(disk) + 1..Len(disk') :
            /\ disk'[j].CommandPattern = FirstField(gate.args["command"].v)
            /\ ~disk'[j].AlwaysAllow

\* C34: the pattern persisted for the answer 'always allow this command' to
\* a run_command prompt has the command's first word as its command pattern
\* and its always-allow bit clear
C34_CommandAnswerStoresCommandPattern == [][CommandPatternStored]_vars

(***************************************************************************)
(* The parts of the program that the chat session only calls into: each    *)
(* is studied on its own, with the rest of the program at rest.            *)
(***************************************************************************)
ProgramAtRest ==
    /\ permissionConfig = toolPermConfig(DefaultPermissionConfig)
    /\ checker = "chat"
    /\ gate = GateIdle
    /\ cfgStore = EmptyConfig
    /\ mcpServers = {}
    /\ toolCallFormat = "text"
    /\ disabledTools = {}
    /\ backendStyle = "text"
    /\ chat = NoChat
    /\ incidents = 0
    /\ ChatAtRest

programVars == <<gateVars, registryVars, agentVars, uiVars>>

(***************************************************************************)
(* InlineCommandExecutor: the shell tool of the chat front-end.            *)
(***************************************************************************)
MaxInvocations == 2
MaxLines == 1

\* time.Now().UnixNano(): the wall clock, whose readings at two calls are
\* whatever the system's clock gives
ClockReadings == 1..MaxInvocations

Event(kind, id, payload) == [kind |-> kind, id |-> id, payload |-> payload]

NewExecutor ==
    [ pc |-> "idle", id |-> << >>, proc |-> "none", exitCode |-> 0,
      stdout |-> 0, stderr |-> 0, sent |-> << >>, earlier |-> {}, done |-> 0 ]

\* Execute is entered: the id is made from the clock's reading and the start
\* message sent (program.Send returns when the event loop has the message)
ExecuteBegins(now) ==
    /\ executor.pc = "idle"
    /\ executor.done < MaxInvocations
    /\ LET id == <<"cmd_", now>>
       IN  executor' =
               [executor EXCEPT
                   !.pc = "begun", !.id = id, !.proc = "none",
                   !.sent = <<Event("start", id, "command")>>,
                   !.earlier = IF executor.id = << >> THEN @
                               ELSE @ \cup {executor.id}]

\* a pipe cannot be made or the subprocess cannot be started
StartFails ==
    /\ executor.pc = "begun"
    /\ executor' = [executor EXCEPT
                        !.pc = "idle", !.exitCode = -1, !.done = @ + 1,
                        !.sent = Append(@, Event("end", executor.id, -1))]

\* cmd.Start: the subprocess runs, with the lines it is going to write
StartSucceeds(nOut, nErr) ==
    /\ executor.pc = "begun"
    /\ executor' = [executor EXCEPT !.pc = "streaming", !.proc = "running",
                                    !.stdout = nOut, !.stderr = nErr]

\* the scanner of standard output has a line
StdoutLine ==
    /\ executor.pc = "streaming" /\ executor.proc = "running"
    /\ executor.stdout > 0
    /\ executor' = [executor EXCEPT
                        !.stdout = @ - 1,
                        !.sent = Append(@, Event("output", executor.id, "line"))]

\* the scanner of standard error has a line
StderrLine ==
    /\ executor.pc = "streaming" /\ executor.proc = "running"
    /\ executor.stderr > 0
    /\ executor' = [executor EXCEPT
                        !.stderr = @ - 1,
                        !.sent = Append(@, Event("output", executor.id, "stderr: line"))]

\* the subprocess has written its lines and exits, closing both pipes
SubprocessExits(code) ==
    /\ executor.pc = "streaming" /\ executor.proc = "running"
    /\ executor.stdout = 0 /\ executor.stderr = 0
    /\ executor' = [executor EXCEPT !.proc = "exited", !.exitCode = code]

\* wg.Wait and cmd.Wait return; the end message is sent and Execute returns
ExecuteReturns ==
    /\ executor.pc = "streaming" /\ executor.proc = "exited"
    /\ executor' = [executor EXCEPT
                        !.pc = "idle", !.done = @ + 1,
                        !.sent = Append(@, Event("end", executor.id, executor.exitCode))]

InitExecutor ==
    /\ ProgramAtRest
    /\ registry = EmptyRegistry
    /\ messages = << >>
    /\ executor = NewExecutor
    /\ session = Nil /\ benchmark = Nil /\ sample = Nil /\ ConcurrentAtRest

NextExecutor ==
    /\ \/ \E now \in ClockReadings : ExecuteBegins(now)
       \/ StartFails
       \/ \E nOut, nErr \in 0..MaxLines : StartSucceeds(nOut, nErr)
       \/ StdoutLine
       \/ StderrLine
       \/ \E code \in {0, 1} : SubprocessExits(code)
       \/ ExecuteReturns
    /\ UNCHANGED <<programVars, session, benchmark, sample, concurrentVars>>

SpecExecutor == InitExecutor /\ [][NextExecutor]_vars

\* the messages of the invocation so far: the start message first, then
\* output lines, and the end message last and only when Execute has returned
EventsInOrder ==
    LET sent == executor.sent
    IN  /\ executor.pc # "idle" \/ executor.done > 0 => Len(sent) >= 1
        /\ \A j \in 1..Len(sent) :
               /\ sent[j].id = executor.id
               /\ sent[j].kind = "start" <=> j = 1
               /\ sent[j].kind = "end" <=> j = Len(sent) /\ executor.pc = "idle"
        /\ Len(sent) >= 1 /\ sent[Len(sent)].kind = "end" =>
               sent[Len(sent)].payload = executor.exitCode

\* Execute has not returned while its subprocess runs
ReturnedAfterExit == executor.pc = "idle" => executor.proc # "running"

\* no invocation before this one had its id
IdUnused == executor.id \notin executor.earlier

\* C21: each invocation of the shell tool sends one start message first, then
\* its output lines, then one end message with the exit code, all with one id
\* that no other invocation uses, and returns only after its subprocess exited
C21_EventsOfOneInvocation == EventsInOrder /\ ReturnedAfterExit /\ IdUnused

(***************************************************************************)
(* The disabled tools of a chat session: /disabletool, /enabletool, /model *)
(***************************************************************************)
\* agent.New: a new agent has no disabled tools
NewAgent(model) == [model |-> model, disabledTools |-> {}]

\* Agent.SetDisabledTools
SetDisabledTools(agent, disabledList) == [agent EXCEPT !.disabledTools = disabledList]

\* runChat: the session starts with the agent of the default model, which is
\* given the configuration's disabled tools
NewSession(cfgDisabled) ==
    [ DisabledTools |-> cfgDisabled,
      sessionDisabledTools |-> {},
      agent |-> SetDisabledTools(NewAgent("llama"), Range(cfgDisabled)) ]

\* chatModel.updateAgentDisabledTools
updateAgentDisabledTools(m) ==
    [m EXCEPT !.agent = SetDisabledTools(@, Range(m.DisabledTools)
                                              \cup m.sessionDisabledTools)]

\* DisableToolCommand.Execute with args <<toolName>> or <<toolName, "--permanent">>;
\* saved tells whether cfg.Save succeeds
DisableTool(toolName, permanent, saved) ==
    /\ session' =
         IF toolName \notin DOMAIN registry THEN session
         ELSE IF toolName \in session.sessionDisabledTools THEN session
         ELSE IF permanent
         THEN IF toolName \in Range(session.DisabledTools) THEN session
              ELSE LET added == [session EXCEPT !.DisabledTools = Append(@, toolName)]
                   IN  IF ~saved THEN added
                       ELSE updateAgentDisabledTools(
                                [added EXCEPT !.sessionDisabledTools = @ \cup {toolName}])
         ELSE updateAgentDisabledTools(
                  [session EXCEPT !.sessionDisabledTools = @ \cup {toolName}])

\* EnableToolCommand.Execute
EnableTool(toolName, permanent, saved) ==
    /\ session' =
         IF toolName \notin DOMAIN registry THEN session
         ELSE LET wasSessionDisabled == toolName \in session.sessionDisabledTools
                  deleted == [session EXCEPT !.sessionDisabledTools = @ \ {toolName}]
                  found == toolName \in Range(session.DisabledTools)
              IN  IF permanent
                  THEN IF ~found /\ ~wasSessionDisabled THEN deleted
                       ELSE LET removed == [deleted EXCEPT
                                               !.DisabledTools =
                                                   SelectSeq(@, LAMBDA n : n # toolName)]
                            IN  IF ~saved THEN removed
                                ELSE updateAgentDisabledTools(removed)
                  ELSE IF ~wasSessionDisabled THEN deleted
                       ELSE updateAgentDisabledTools(deleted)

\* SwitchModelCommand.Execute with a model that the server lists or not
SwitchModel(newModel, listed, saved) ==
    /\ session' = IF listed /\ saved
                  THEN [session EXCEPT !.agent = NewAgent(newModel)]
                  ELSE session

ToolArguments == {"read_file", "run_command", "no_such_tool"}

InitSession ==
    /\ ProgramAtRest
    /\ registry = SetupRegistry(EmptyConfig, {})
    /\ messages = << >>
    /\ \E cfgDisabled \in {<< >>, <<"read_file">>} : session = NewSession(cfgDisabled)
    /\ executor = Nil /\ benchmark = Nil /\ sample = Nil /\ ConcurrentAtRest

NextSession ==
    /\ \/ \E t \in ToolArguments : \E p, ok \in BOOLEAN : DisableTool(t, p, ok)
       \/ \E t \in ToolArguments : \E p, ok \in BOOLEAN : EnableTool(t, p, ok)
       \/ \E model \in Models : \E listed, ok \in BOOLEAN : SwitchModel(model, listed, ok)
    /\ UNCHANGED <<programVars, executor, benchmark, sample, concurrentVars>>

SpecSession == InitSession /\ [][NextSession]_vars

\* C22: whatever /disabletool, /enabletool and /model commands have run, the
\* agent of the session has as its disabled tools the configuration's disabled
\* list together with the session's disabled set
C22_AgentHasUnionDisabled ==
    session.agent.disabledTools =
        Range(session.DisabledTools) \cup session.sessionDisabledTools

\* the same, when no /model command runs and cfg.Save does not fail
UnionKeptBySavedToolCommands ==
    [][(\E t \in ToolArguments : \E p \in BOOLEAN :
            DisableTool(t, p, TRUE) \/ EnableTool(t, p, TRUE))
       /\ C22_AgentHasUnionDisabled => C22_AgentHasUnionDisabled']_vars

(***************************************************************************)
(* Functions of the program, each applied to arguments drawn from a menu:  *)
(* sample holds the function's name, its argument and, once the function   *)
(* has been applied, its result.                                           *)
(***************************************************************************)
Sample(fn, in) == [fn |-> fn, in |-> in, done |-> FALSE, out |-> << >>]

Applied(fn) == sample.fn = fn /\ sample.done

\* the step that applies a function to the argument in sample
Apply(fn, out) ==
    /\ sample.fn = fn /\ ~sample.done
    /\ sample' = [sample EXCEPT !.done = TRUE, !.out = out]
    /\ UNCHANGED <<programVars, executor, session, benchmark, concurrentVars>>

(***************************************************************************)
(* Benchmarker.SelectBestModel and UpdateConfig.  Scores are in tenths.    *)
(***************************************************************************)
GoodScore == 6

ModelScore(model, total, supportsTools) ==
    [Model |-> model, TotalScore |-> total, SupportsTools |-> supportsTools]

\* the first score in the list that has tool support and a good total
RECURSIVE FirstGood(_)
FirstGood(scores) ==
    IF scores = << >> THEN << >>
    ELSE IF Head(scores).SupportsTools /\ Head(scores).TotalScore > GoodScore
         THEN <<Head(scores)>>
         ELSE FirstGood(Tail(scores))

SelectBestModel(scores) ==
    IF Len(scores) = 0 THEN ""
    ELSE IF FirstGood(scores) # << >> THEN FirstGood(scores)[1].Model
    ELSE scores[1].Model

\* UpdateConfig: the capabilities are stored, and the default model is set
\* when the configuration has none
UpdateConfig(cfg, scores) ==
    [ ModelCapabilities |->
          [m \in {scores[j].Model : j \in 1..Len(scores)} |->
              scores[CHOOSE j \in 1..Len(scores) :
                         /\ scores[j].Model = m
                         /\ \A k \in j+1..Len(scores) : scores[k].Model # m
                    ].SupportsTools ]
          @@ cfg.ModelCapabilities,
      DefaultModel |-> IF cfg.DefaultModel = "" THEN SelectBestModel(scores)
                       ELSE cfg.DefaultModel ]

ApplyUpdateConfig ==
    Apply("UpdateConfig", UpdateConfig(sample.in.cfg, sample.in.scores))

Totals == {5, 7, 9}

ScoreLists ==
    {<< >>}
    \cup { <<ModelScore(m, t, s)>> : m \in Models, t \in Totals, s \in BOOLEAN }
    \cup { <<ModelScore(m[1], t[1], s[1]), ModelScore(m[2], t[2], s[2])>> :
             m \in {<<"llama", "qwen">>, <<"qwen", "llama">>},
             t \in Totals \X Totals, s \in BOOLEAN \X BOOLEAN }

Configs ==
    { [ModelCapabilities |-> << >>, DefaultModel |-> d] : d \in {"", "llama"} }

UpdateConfigSamples ==
    { Sample("UpdateConfig", [cfg |-> c, scores |-> l]) : c \in Configs, l \in ScoreLists }

\* the models of the list whose total is the highest among those that pass
Highest(scores, Pass(_)) ==
    { scores[j].Model : j \in
        { j \in 1..Len(scores) :
            /\ Pass(scores[j])
            /\ \A k \in 1..Len(scores) :
                   Pass(scores[k]) => scores[k].TotalScore <= scores[j].TotalScore } }

Qualifies(score) == score.SupportsTools /\ score.TotalScore > GoodScore

AnyScore(score) == TRUE

\* C24: a default model installed from a list of scores is the one with the
\* highest total among the models with tool support and a total above 0.6,
\* or the one with the highest total of all when no model qualifies, in
\* whatever order the list has the scores
C24_DefaultIsHighestQualifying ==
    Applied("UpdateConfig") /\ sample.in.cfg.DefaultModel = ""
            /\ sample.in.scores # << >> =>
        LET scores == sample.in.scores
            best == IF Highest(scores, Qualifies) # {} THEN Highest(scores, Qualifies)
                    ELSE Highest(scores, AnyScore)
        IN  sample.out.DefaultModel \in best

\* the lists that BenchmarkAll passes on are sorted by falling total
Sorted(scores) ==
    \A j \in 1..Len(scores) - 1 : scores[j].TotalScore >= scores[j + 1].TotalScore

\* for a list sorted by falling total the installed model is as the spec has it
SortedListsGiveHighest ==
    Applied("UpdateConfig") /\ Sorted(sample.in.scores) => C24_DefaultIsHighestQualifying

(***************************************************************************)
(* Detector.DetectCapabilities.  A response of the backend to a probe is   *)
(* an error or a message; of the message's content the model keeps which   *)
(* of the strings the probes look for occur in it.                         *)
(***************************************************************************)
ProbeError == [err |-> TRUE, toolCalls |-> 0, content |-> {}]

ProbeReply(toolCalls, content) == [err |-> FALSE, toolCalls |-> toolCalls, content |-> content]

\* strings.Contains(content, marker)
Occurs(marker, content) == marker \in content

testNativeTools(resp) == ~resp.err /\ resp.toolCalls > 0

testXMLFormat(resp) ==
    /\ ~resp.err
    /\ Occurs("<tool_call>", resp.content)
    /\ Occurs("<name>test_tool</name>", resp.content)

testJSONFormat(resp) ==
    /\ ~resp.err
    /\ Occurs("tool_call", resp.content)
    /\ Occurs("test_tool", resp.content)

Capability(supportsTools, format, probed) ==
    [SupportsTools |-> supportsTools, ToolCallFormat |-> format, probed |-> probed]

DetectXMLFirst(backend) ==
    IF testXMLFormat(backend.xml)
    THEN Capability(FALSE, "xml", <<"xml">>)
    ELSE IF testNativeTools(backend.native)
    THEN Capability(TRUE, "native", <<"xml", "native">>)
    ELSE IF testJSONFormat(backend.json)
    THEN Capability(FALSE, "json", <<"xml", "native", "json">>)
    ELSE Capability(FALSE, "text", <<"xml", "native", "json">>)

\* the capability found for a model whose backend answers the probes as
\* backend has it, with the probes that were sent
DetectCapabilities(backend) ==
    IF testNativeTools(backend.native)
    THEN Capability(TRUE, "native", <<"native">>)
    ELSE IF testXMLFormat(backend.xml)
    THEN Capability(FALSE, "xml", <<"native", "xml">>)
    ELSE IF testJSONFormat(backend.json)
    THEN Capability(FALSE, "json", <<"native", "xml", "json">>)
    ELSE Capability(FALSE, "text", <<"native", "xml", "json">>)

ApplyDetectCapabilities == Apply("DetectCapabilities", DetectCapabilities(sample.in))

\* the contents a reply can have: a content with "<tool_call>" in it has
\* "tool_call" in it, and likewise for the name element
Contents ==
    { c \in SUBSET {"<tool_call>", "<name>test_tool</name>", "tool_call", "test_tool"} :
        /\ "<tool_call>" \in c => "tool_call" \in c
        /\ "<name>test_tool</name>" \in c => "test_tool" \in c }

Backends ==
    [ native : {ProbeError, ProbeReply(0, {}), ProbeReply(1, {})},
      xml : {ProbeError} \cup {ProbeReply(0, c) : c \in Contents},
      json : {ProbeError} \cup {ProbeReply(0, c) : c \in Contents} ]

DetectSamples == { Sample("DetectCapabilities", b) : b \in Backends }

ProbeOrder == <<"native", "xml", "json">>

\* the probe of a dialect succeeds on the answer the backend gives it
Succeeds(backend, probe) ==
    CASE probe = "native" -> testNativeTools(backend.native)
      [] probe = "xml" -> testXMLFormat(backend.xml)
      [] probe = "json" -> testJSONFormat(backend.json)

\* C28: the detector probes native, tagged and fenced-JSON in this order and
\* stops at the first probe that succeeds; the result is native with tool
\* support exactly when the native probe succeeds, else tagged when that
\* probe succeeds, else fenced-JSON when that probe succeeds, else
\* line-prefixed; a probe that ends in a transport error has not succeeded
C28_FirstSuccessfulProbeDecides ==
    Applied("DetectCapabilities") =>
        LET b == sample.in
            o == sample.out
            n == Len(o.probed)
        IN  /\ n >= 1 /\ o.probed = SubSeq(ProbeOrder, 1, n)
            /\ \A j \in 1..n - 1 : ~Succeeds(b, o.probed[j])
            /\ n < Len(ProbeOrder) => Succeeds(b, o.probed[n])
            /\ \A probe \in {"native", "xml", "json"} :
                   b[probe].err => ~Succeeds(b, probe)
            /\ (o.ToolCallFormat = "native" /\ o.SupportsTools) <=> Succeeds(b, "native")
            /\ o.SupportsTools <=> o.ToolCallFormat = "native"
            /\ ~Succeeds(b, "native") =>
                   o.ToolCallFormat =
                       IF Succeeds(b, "xml") THEN "xml"
                       ELSE IF Succeeds(b, "json") THEN "json"
                       ELSE "text"

\* the native probe gets no tool call, the tagged probe ends in an error and
\* the fenced-JSON probe succeeds
C28_Witness ==
    /\ Applied("DetectCapabilities")
    /\ ~sample.in.native.err /\ sample.in.xml.err
    /\ Succeeds(sample.in, "json")
    /\ sample.out.ToolCallFormat = "json"

(***************************************************************************)
(* Agent.ClearHistory as a function of the conversation.                   *)
(***************************************************************************)
MaxMessages == 4

ClearEverything(msgs) == << >>

\* Agent.ClearHistory
ClearHistory(msgs) == SelectSeq(msgs, LAMBDA msg : msg.role = "system")

ApplyClearHistory ==
    Apply("ClearHistory", [once |-> ClearHistory(sample.in),
                           twice |-> ClearHistory(ClearHistory(sample.in))])

MessageKinds ==
    { Message("system", "a", ""), Message("system", "b", ""), Message("user", "a", ""),
      Message("assistant", "a", ""), Message("tool", "a", "") }

Conversations ==
    UNION { [1..n -> MessageKinds] : n \in 0..MaxMessages - 1 }

ClearHistorySamples == { Sample("ClearHistory", c) : c \in Conversations }

\* the places of the system messages in a conversation
SystemPlaces(msgs) == { j \in 1..Len(msgs) : msgs[j].role = "system" }

\* C27: ClearHistory leaves the system messages that the conversation held,
\* in their order, and nothing else; a second ClearHistory changes nothing
C27_ClearHistoryKeepsSystem ==
    Applied("ClearHistory") =>
        LET in == sample.in
            out == sample.out.once
        IN  /\ Len(out) = Cardinality(SystemPlaces(in))
            /\ \A j \in SystemPlaces(in) :
                   out[Cardinality({k \in SystemPlaces(in) : k <= j})] = in[j]
            /\ sample.out.twice = out

\* a conversation with two different system messages around a user message
C27_Witness ==
    /\ Applied("ClearHistory")
    /\ Len(sample.in) = 3 /\ sample.in[2].role = "user"
    /\ sample.out.once = <<Message("system", "b", ""), Message("system", "a", "")>>

(***************************************************************************)
(* SerializeCustomTool and DeserializeCustomTool.  A value of a            *)
(* map[string]interface{} is kept with its dynamic Go type, which the type *)
(* assertions of DeserializeCustomTool look at.                            *)
(***************************************************************************)
Go(type, v) == [go |-> type, v |-> v]

CommandParam(name, type, description, required) ==
    [Name |-> name, Type |-> type, Description |-> description, Required |-> required]

NewCustomCommandTool(name, description, command, params) ==
    [name |-> name, description |-> description, command |-> command, params |-> params]

SerializeCustomTool(tool) ==
    [ name |-> Go("string", tool.name),
      description |-> Go("string", tool.description),
      command |-> Go("string", tool.command),
      params |-> Go("[]CommandParam", tool.params) ]

getStringField(m, key) ==
    IF key \in DOMAIN m /\ m[key].go = "string" THEN m[key].v ELSE ""

getBoolField(m, key) ==
    IF key \in DOMAIN m /\ m[key].go = "bool" THEN m[key].v ELSE FALSE

\* the tool made from the map, or the error for a field that is no string
DeserializeCustomTool(data) ==
    IF \E key \in {"name", "description", "command"} :
           key \notin DOMAIN data \/ data[key].go # "string"
    THEN [err |-> "missing or invalid field", tool |-> << >>]
    ELSE LET items == IF "params" \in DOMAIN data /\ data.params.go = "[]interface{}"
                      THEN SelectSeq(data.params.v,
                                     LAMBDA p : p.go = "map[string]interface{}")
                      ELSE << >>
             params == [j \in 1..Len(items) |->
                           CommandParam(getStringField(items[j].v, "name"),
                                        getStringField(items[j].v, "type"),
                                        getStringField(items[j].v, "description"),
                                        getBoolField(items[j].v, "required"))]
         IN  [err |-> "", tool |-> NewCustomCommandTool(data.name.v, data.description.v,
                                                        data.command.v, params)]

\* Config.Save and config.Load: the map as it comes back from the JSON text
\* that json.MarshalIndent makes of it; a nil slice is written as null
StoredAndLoaded(data) ==
    [ key \in DOMAIN data |->
        IF data[key].go = "[]CommandParam"
        THEN IF data[key].v = << >> THEN Go("nil", << >>)
             ELSE Go("[]interface{}",
                     [j \in 1..Len(data[key].v) |->
                         Go("map[string]interface{}",
                            [ name |-> Go("string", data[key].v[j].Name),
                              type |-> Go("string", data[key].v[j].Type),
                              description |-> Go("string", data[key].v[j].Description),
                              required |-> Go("bool", data[key].v[j].Required) ])])
        ELSE data[key] ]

ApplyRoundTrip ==
    Apply("RoundTrip",
          [ direct |-> DeserializeCustomTool(SerializeCustomTool(sample.in)),
            stored |-> DeserializeCustomTool(StoredAndLoaded(SerializeCustomTool(sample.in))) ])

CommandParams ==
    { CommandParam(n, t, "d", r) : n \in {"a", "b"}, t \in {"string", "number"}, r \in BOOLEAN }

CustomTools ==
    { NewCustomCommandTool(n, "does", "echo {{a}}", ps) :
        n \in {"t", "u"},
        ps \in {<< >>} \cup {<<p>> : p \in CommandParams}
                      \cup {<<p[1], p[2]>> : p \in CommandParams \X CommandParams} }

RoundTripSamples == { Sample("RoundTrip", t) : t \in CustomTools }

\* C29: the tool made by DeserializeCustomTool from what SerializeCustomTool
\* gives for a custom command tool has the name, the description, the command
\* template and the parameter list of that tool
C29_RoundTripKeepsDeclaration ==
    Applied("RoundTrip") =>
        /\ sample.out.direct.err = ""
        /\ sample.out.direct.tool = sample.in

\* the same for the map that has been written to the configuration file and
\* read back from it
RoundTripThroughFile ==
    Applied("RoundTrip") =>
        /\ sample.out.stored.err = ""
        /\ sample.out.stored.tool = sample.in

(***************************************************************************)
(* The text dialects of tool calls, read as the agent reads them.  A text  *)
(* is a sequence of characters in which each marker of a dialect, each     *)
(* object key and each escape sequence of JSON stands as one element.      *)
(***************************************************************************)
MaxArgLen == 2

Quote == "\""

EscQuote == "\\\""

EscNewline == "\\n"

White == {Space, Newline}

\* the three backquotes that close a fenced block, and those that open a
\* block of JSON together with the word json, each as one element
Fence == "[fence]"

\* the closing tag of the arguments, and the same text as encoding/json
\* writes it inside a string when it escapes < and >
ArgsClose == "</arguments>"

EscArgsClose == "\\u003c/arguments\\u003e"

FenceJson == "[fence]json"

Obj(f) == [t |-> "obj", v |-> f]

RECURSIVE TrimWhite(_)
TrimWhite(s) ==
    IF s # << >> /\ Head(s) \in White THEN TrimWhite(Tail(s))
    ELSE IF s # << >> /\ s[Len(s)] \in White THEN TrimWhite(SubSeq(s, 1, Len(s) - 1))
    ELSE s

\* the first place at or after i where the text has the element, or 0
RECURSIVE IndexFrom(_, _, _)
IndexFrom(ts, t, i) ==
    IF i > Len(ts) THEN 0 ELSE IF ts[i] = t THEN i ELSE IndexFrom(ts, t, i + 1)

RECURSIVE SkipWhite(_, _)
SkipWhite(ts, i) == IF i <= Len(ts) /\ ts[i] \in White THEN SkipWhite(ts, i + 1) ELSE i

NoParse == [ok |-> FALSE, v |-> << >>, next |-> 0]

Parsed(v, next) == [ok |-> TRUE, v |-> v, next |-> next]

\* encoding/json, a string from the element after its opening quote
RECURSIVE StringBody(_, _, _)
StringBody(ts, i, acc) ==
    IF i > Len(ts) \/ ts[i] = Newline THEN NoParse
    ELSE IF ts[i] = Quote THEN Parsed(acc, i + 1)
    ELSE StringBody(ts, i + 1,
                    Append(acc, IF ts[i] = EscQuote THEN Quote
                                ELSE IF ts[i] = EscNewline THEN Newline
                                ELSE IF ts[i] = EscArgsClose THEN ArgsClose
                                ELSE ts[i]))

\* encoding/json, a value: a string or an object of such values
RECURSIVE ParseValue(_, _)
RECURSIVE ParseMembers(_, _, _)
ParseValue(ts, from) ==
    LET i == SkipWhite(ts, from) IN
    IF i > Len(ts) THEN NoParse
    ELSE IF ts[i] = Quote
    THEN LET str == StringBody(ts, i + 1, << >>)
         IN  IF str.ok THEN Parsed(Str(str.v), str.next) ELSE NoParse
    ELSE IF ts[i] = "{"
    THEN LET j == SkipWhite(ts, i + 1)
         IN  IF j <= Len(ts) /\ ts[j] = "}" THEN Parsed(Obj(<< >>), j + 1)
             ELSE ParseMembers(ts, j, << >>)
    ELSE NoParse

ParseMembers(ts, from, obj) ==
    LET i == SkipWhite(ts, from) IN
    IF i > Len(ts) \/ ts[i] # Quote THEN NoParse
    ELSE LET key == StringBody(ts, i + 1, << >>) IN
         IF ~key.ok \/ Len(key.v) # 1 THEN NoParse
         ELSE LET colon == SkipWhite(ts, key.next) IN
              IF colon > Len(ts) \/ ts[colon] # ":" THEN NoParse
              ELSE LET val == ParseValue(ts, colon + 1) IN
                   IF ~val.ok THEN NoParse
                   ELSE LET end == SkipWhite(ts, val.next)
                            more == (key.v[1] :> val.v) @@ obj
                        IN  IF end > Len(ts) THEN NoParse
                            ELSE IF ts[end] = "}" THEN Parsed(Obj(more), end + 1)
                            ELSE IF ts[end] = "," THEN ParseMembers(ts, end + 1, more)
                            ELSE NoParse

\* json.Unmarshal into a map: the map, or an error that leaves the map nil
Unmarshal(ts) ==
    LET val == ParseValue(ts, 1) IN
    IF val.ok /\ val.v.t = "obj" /\ SkipWhite(ts, val.next) > Len(ts)
    THEN [err |-> FALSE, map |-> val.v.v]
    ELSE [err |-> TRUE, map |-> << >>]

ToolCall(name, args) == [name |-> name, args |-> args]

\* the call of one <tool_call> element, or nothing when it has no name
XMLCall(inner) ==
    LET Closes(p, q) ==
            /\ q > p /\ inner[q] = "</name>"
            /\ \A r \in p + 1..q - 1 : inner[r] # Newline
        starts == { p \in 1..Len(inner) :
                      inner[p] = "<name>" /\ \E q \in 1..Len(inner) : Closes(p, q) }
        argsOpen == IndexFrom(inner, "<arguments>", 1)
        argsClose == IF argsOpen = 0 THEN 0
                     ELSE IndexFrom(inner, ArgsClose, argsOpen + 1)
    IN  IF starts = {} THEN << >>
        ELSE LET p == Min(starts)
                 q == Min({ q \in 1..Len(inner) : Closes(p, q) })
                 args == IF argsClose = 0 THEN << >>
                         ELSE Unmarshal(TrimWhite(
                                  SubSeq(inner, argsOpen + 1, argsClose - 1))).map
             IN  <<ToolCall(TrimWhite(SubSeq(inner, p + 1, q - 1)), args)>>

\* parseXMLToolCalls on a text, from place i on
RECURSIVE parseXMLContent(_, _)
parseXMLContent(content, i) ==
    LET open == IndexFrom(content, "<tool_call>", i)
        close == IF open = 0 THEN 0 ELSE IndexFrom(content, "</tool_call>", open + 1)
    IN  IF close = 0 THEN << >>
        ELSE XMLCall(SubSeq(content, open + 1, close - 1))
                 \o parseXMLContent(content, close + 1)

\* the call of one fenced block, or nothing
JSONCall(block) ==
    LET data == Unmarshal(block) IN
    IF data.err \/ "tool_call" \notin DOMAIN data.map
             \/ data.map["tool_call"].t # "obj" THEN << >>
    ELSE LET toolCallData == data.map["tool_call"].v
             name == IF "name" \in DOMAIN toolCallData /\ toolCallData["name"].t = "str"
                     THEN toolCallData["name"].v ELSE << >>
             args == IF "arguments" \in DOMAIN toolCallData
                            /\ toolCallData["arguments"].t = "obj"
                     THEN toolCallData["arguments"].v ELSE << >>
         IN  <<ToolCall(name, args)>>

\* parseJSONToolCalls on a text, from place i on
RECURSIVE parseJSONContent(_, _)
parseJSONContent(content, i) ==
    LET Ends(n) == n < Len(content) /\ content[n] = Newline /\ content[n + 1] = Fence
        Begins(p, m) ==
            /\ m > p /\ content[m] = Newline
            /\ \A r \in p + 1..m - 1 : content[r] \in White
            /\ \E n \in m + 1..Len(content) : Ends(n)
        fences == { p \in i..Len(content) :
                      content[p] = FenceJson /\ \E m \in 1..Len(content) : Begins(p, m) }
    IN  IF fences = {} THEN << >>
        ELSE LET p == Min(fences)
                 m == CHOOSE m \in 1..Len(content) :
                          Begins(p, m) /\ \A k \in 1..Len(content) : Begins(p, k) => k <= m
                 n == Min({ n \in m + 1..Len(content) : Ends(n) })
             IN  JSONCall(SubSeq(content, m + 1, n - 1))
                     \o parseJSONContent(content, n + 2)

\* strings.Split(content, "\n")
RECURSIVE Lines(_)
Lines(content) ==
    LET nl == IndexFrom(content, Newline, 1) IN
    IF nl = 0 THEN <<content>>
    ELSE <<SubSeq(content, 1, nl - 1)>> \o Lines(SubSeq(content, nl + 1, Len(content)))

\* parseTextToolCalls on the lines of a text, from line i on
RECURSIVE parseTextLines(_, _)
parseTextLines(lines, i) ==
    IF i > Len(lines) THEN << >>
    ELSE LET line == TrimWhite(lines[i])
             nextLine == IF i + 1 <= Len(lines) THEN TrimWhite(lines[i + 1]) ELSE << >>
         IN  IF HasPrefix(line, <<"USE_TOOL:">>) /\ HasPrefix(nextLine, <<"ARGS:">>)
             THEN <<ToolCall(TrimWhite(Tail(line)), Unmarshal(TrimWhite(Tail(nextLine))).map)>>
                      \o parseTextLines(lines, i + 2)
             ELSE parseTextLines(lines, i + 1)

\* the calls that extractToolCalls finds in a text for a format
ExtractFromText(format, content) ==
    CASE format = "xml" -> parseXMLContent(content, 1)
      [] format = "json" -> parseJSONContent(content, 1)
      [] format = "text" -> parseTextLines(Lines(content), 1)

\* JSON text of a string and of an argument map; escapeHTML says whether
\* the writer escapes < and >, as json.Marshal does and a model need not
EncodeString(str, escapeHTML) ==
    <<Quote>>
    \o [j \in 1..Len(str) |-> IF str[j] = Quote THEN EscQuote
                              ELSE IF str[j] = Newline THEN EscNewline
                              ELSE IF str[j] = ArgsClose /\ escapeHTML THEN EscArgsClose
                              ELSE str[j]]
    \o <<Quote>>

EncodeArgs(args, escapeHTML) ==
    IF DOMAIN args = {} THEN <<"{", "}">>
    ELSE LET key == CHOOSE k \in DOMAIN args : TRUE
         IN  <<"{">> \o EncodeString(<<key>>, escapeHTML) \o <<":">>
                 \o EncodeString(args[key].v, escapeHTML) \o <<"}">>

\* a tool call written in a dialect, as the system prompts describe it
RenderCall(format, call, escapeHTML) ==
    CASE format = "xml" ->
             <<"<tool_call>", "<name>">> \o call.name
                 \o <<"</name>", "<arguments>">> \o EncodeArgs(call.args, escapeHTML)
                 \o <<ArgsClose, "</tool_call>">>
      [] format = "json" ->
             <<FenceJson, Newline, "{">> \o EncodeString(<<"tool_call">>, escapeHTML) \o <<":", "{">>
                 \o EncodeString(<<"name">>, escapeHTML) \o <<":">> \o EncodeString(call.name, escapeHTML)
                 \o <<",">> \o EncodeString(<<"arguments">>, escapeHTML) \o <<":">>
                 \o EncodeArgs(call.args, escapeHTML) \o <<"}", "}", Newline, Fence>>
      [] format = "text" ->
             <<"USE_TOOL:", Space>> \o call.name \o <<Newline, "ARGS:", Space>>
                 \o EncodeArgs(call.args, escapeHTML)

ApplyDialect ==
    Apply("Dialect", ExtractFromText(sample.in.format,
                                     RenderCall(sample.in.format, sample.in.call,
                                                sample.in.escapeHTML)))

ArgChars == {"a", Space, Quote, Newline, ArgsClose, Fence}

ArgValues == UNION { [1..n -> ArgChars] : n \in 0..MaxArgLen }

DialectCalls ==
    { ToolCall(name, args) :
        name \in {<<"f">>, <<"r", "f">>},
        args \in {<< >>} \cup { [k \in {"path"} |-> Str(v)] : v \in ArgValues } }

DialectSamples ==
    { Sample("Dialect", [format |-> f, call |-> c, escapeHTML |-> e]) :
        f \in {"xml", "json", "text"}, c \in DialectCalls, e \in BOOLEAN }

RoundTrips(formats, escapes) ==
    Applied("Dialect") /\ sample.in.format \in formats /\ sample.in.escapeHTML \in escapes
        => sample.out = <<sample.in.call>>

\* C30: a tool call written in the tagged, the fenced-JSON or the
\* line-prefixed dialect and read by the agent's extractor for that dialect
\* gives exactly one call, with the name and the arguments of the call written
C30_DialectRoundTrip == RoundTrips({"xml", "json", "text"}, BOOLEAN)

\* the same for the fenced-JSON and the line-prefixed dialect alone
FencedAndLineRoundTrip == RoundTrips({"json", "text"}, BOOLEAN)

\* and for every dialect when the arguments are written with < and > escaped
EscapedRoundTrip == RoundTrips({"xml", "json", "text"}, {TRUE})

(***************************************************************************)
(* AddMCPServerTool.Execute: after AddServer, the tools of all connected   *)
(* servers are gone through, and those whose name begins with "mcp_" and   *)
(* the new server's name are registered.  Names are character strings.     *)
(***************************************************************************)
MaxServers == 2

\* MCPToolWrapper.Name: mcp_<server>_<tool>
FullName(serverName, toolName) ==
    <<"m", "c", "p", "_">> \o serverName \o <<"_">> \o toolName

\* MCPToolRegistry.GetTools: the wrapped tools of all the clients
WrappedTools(clients) ==
    UNION { { FullName(c.name, t) : t \in c.tools } : c \in clients }

\* the orders in which the loop can meet the tools: the clients are a Go map
ToolOrders(names) ==
    { o \in [1..Cardinality(names) -> names] :
        \A j, k \in 1..Cardinality(names) : j # k => o[j] # o[k] }

\* the loop of Execute over the tools from place j on: the names registered
\* so far and whether a slice expression went past the end of a name, which
\* is a run-time panic
RECURSIVE RegisterNewTools(_, _, _, _)
RegisterNewTools(order, j, prefix, registered) ==
    IF j > Len(order) THEN [fault |-> FALSE, registered |-> registered]
    ELSE IF Len(order[j]) < Len(prefix) THEN [fault |-> TRUE, registered |-> registered]
    ELSE RegisterNewTools(order, j + 1, prefix,
                          IF SubSeq(order[j], 1, Len(prefix)) = prefix
                          THEN registered \cup {order[j]} ELSE registered)

\* AddMCPServerTool.Execute for a server that starts, the tools met in order
AddMCPServerExecute(clients, server, order) ==
    RegisterNewTools(order, 1, <<"m", "c", "p", "_">> \o server.name, {})

ApplyAddMCPServer ==
    /\ sample.fn = "AddMCPServer"
    /\ \E order \in ToolOrders(WrappedTools(sample.in.clients \cup {sample.in.server})) :
         Apply("AddMCPServer",
               AddMCPServerExecute(sample.in.clients, sample.in.server, order))

\* the servers there are: their names and the tools they offer
Servers ==
    { [name |-> <<"f", "s">>, tools |-> {<<"r">>, <<"l", "s">>}],
      [name |-> <<"f", "s", "2">>, tools |-> {<<"r">>}],
      [name |-> <<"g">>, tools |-> {<<"r">>}],
      [name |-> <<"g", "i", "t", "h", "u", "b">>, tools |-> {<<"r">>}] }

AddMCPServerSamples ==
    { Sample("AddMCPServer", [clients |-> cs, server |-> new]) :
        <<cs, new>> \in { <<cs, new>> \in (SUBSET Servers) \X Servers :
                            /\ Cardinality(cs) <= MaxServers
                            /\ new \notin cs } }

\* the names under which the tools of a server are registered
NamesOf(server) == { FullName(server.name, t) : t \in server.tools }

\* C39: add_mcp_server registers exactly the tools of the server it adds
\* and completes without a run-time fault, whatever servers are connected
C39_RegistersNewServersTools ==
    Applied("AddMCPServer") =>
        /\ ~sample.out.fault
        /\ sample.out.registered = NamesOf(sample.in.server)

\* it does so when no connected server has a name that is shorter than the
\* new server's or begins with it
UnrelatedNames ==
    \A c \in sample.in.clients :
        /\ Len(c.name) >= Len(sample.in.server.name)
        /\ SubSeq(c.name, 1, Len(sample.in.server.name)) # sample.in.server.name

RegistersNewServersToolsAmongUnrelated ==
    Applied("AddMCPServer") /\ UnrelatedNames =>
        /\ ~sample.out.fault
        /\ sample.out.registered = NamesOf(sample.in.server)

InitFunctions ==
    /\ ProgramAtRest
    /\ registry = EmptyRegistry
    /\ messages = << >>
    /\ executor = Nil /\ session = Nil /\ benchmark = Nil /\ ConcurrentAtRest
    /\ sample \in UpdateConfigSamples \cup DetectSamples \cup ClearHistorySamples
                 \cup RoundTripSamples \cup DialectSamples \cup AddMCPServerSamples

NextFunctions ==
    \/ ApplyUpdateConfig
    \/ ApplyDetectCapabilities
    \/ ApplyClearHistory
    \/ ApplyRoundTrip
    \/ ApplyDialect
    \/ ApplyAddMCPServer

SpecFunctions == InitFunctions /\ [][NextFunctions]_vars

(***************************************************************************)
(* BackgroundBenchmark.run: the models are benchmarked one after another   *)
(* in a goroutine of their own, and Stop cancels its context.              *)
(***************************************************************************)
MaxModels == 2
MaxTasks == 2

ModelNames == <<"llama", "qwen", "phi", "gemma">>

\* what a task's answer can be given, in tenths
TaskScores == {4, 10}

RECURSIVE Sum(_)
Sum(seq) == IF seq = << >> THEN 0 ELSE Head(seq) + Sum(Tail(seq))

average(scores) == IF Len(scores) = 0 THEN 0 ELSE Sum(scores) \div Len(scores)

\* how the backend of a model answers the detector's probes: with a tool
\* call, with plain text, or, once the context is cancelled, with errors
NativeBackend ==
    [native |-> ProbeReply(1, {}), xml |-> ProbeReply(0, {}), json |-> ProbeReply(0, {})]

TextBackend ==
    [native |-> ProbeReply(0, {}), xml |-> ProbeReply(0, {}), json |-> ProbeReply(0, {})]

CancelledBackend == [native |-> ProbeError, xml |-> ProbeError, json |-> ProbeError]

\* NewBackgroundBenchmark and Start
NewBackgroundBenchmark(models) ==
    [ pc |-> "listing", ctx |-> "live", running |-> TRUE, done |-> "open",
      models |-> models, i |-> 1,
      capability |-> Capability(FALSE, "text", << >>), scores |-> << >>,
      partialScores |-> << >>, allScores |-> << >>,
      cfg |-> [ModelCapabilities |-> << >>, DefaultModel |-> ""],
      partialFile |-> << >>, resultsFile |-> << >>,
      completedAtCancel |-> {}, writesSinceCancel |-> 0 ]

\* the deferred calls of run: running is cleared and done is closed
Returned(b) == [b EXCEPT !.pc = "done", !.running = FALSE, !.done = "closed"]

\* the orders in which a range over the map can give its entries
Orders(map) ==
    { o \in [1..Cardinality(DOMAIN map) -> DOMAIN map] :
        \A j, k \in DOMAIN o : j # k => o[j] # o[k] }

\* savePartialResults, with the files writable
savePartialResults(b, order) ==
    IF DOMAIN b.partialScores = {} THEN b
    ELSE [b EXCEPT
            !.cfg = UpdateConfig(@, [j \in DOMAIN order |-> b.partialScores[order[j]]]),
            !.partialFile = b.partialScores,
            !.writesSinceCancel = IF b.ctx = "cancelled" THEN @ + 1 ELSE @]

\* Stop: the context of the run is cancelled
Stop ==
    /\ benchmark.ctx = "live" /\ benchmark.pc # "done"
    /\ benchmark' = [benchmark EXCEPT
                        !.ctx = "cancelled",
                        !.completedAtCancel = DOMAIN benchmark.partialScores]

\* ListModels returns; with a cancelled context it returns an error
ListModelsReturns ==
    /\ benchmark.pc = "listing"
    /\ benchmark' = IF benchmark.ctx = "cancelled" THEN Returned(benchmark)
                    ELSE [benchmark EXCEPT !.pc = "next"]

\* the loop's head: the run ends when no model is left or the context is
\* cancelled, and otherwise BenchmarkModel is called for the next model
LoopHead ==
    /\ benchmark.pc = "next"
    /\ \E order \in Orders(benchmark.partialScores) :
         benchmark' =
           IF benchmark.i > Len(benchmark.models)
           THEN Returned([benchmark EXCEPT
                            !.cfg = UpdateConfig(@, benchmark.allScores),
                            !.resultsFile = benchmark.allScores])
           ELSE IF benchmark.ctx = "cancelled"
           THEN Returned(savePartialResults(benchmark, order))
           ELSE [benchmark EXCEPT !.pc = "detect"]

\* BenchmarkModel, first part: the capabilities of the model are detected
DetectStep ==
    /\ benchmark.pc = "detect"
    /\ \E backend \in {NativeBackend, TextBackend} :
         benchmark' =
           [benchmark EXCEPT
               !.pc = "tasks", !.scores = << >>,
               !.capability = DetectCapabilities(
                   IF benchmark.ctx = "cancelled" THEN CancelledBackend ELSE backend)]

\* BenchmarkModel, one task: a request that fails gives the task the score 0
TaskStep ==
    /\ benchmark.pc = "tasks" /\ Len(benchmark.scores) < MaxTasks
    /\ \E taskScore \in TaskScores :
         benchmark' =
           [benchmark EXCEPT
               !.scores = Append(@, IF benchmark.ctx = "cancelled" THEN 0 ELSE taskScore)]

\* BenchmarkModel returns the score, which is never an error; run stores it
\* and saves the partial results
ModelReturns ==
    /\ benchmark.pc = "tasks" /\ Len(benchmark.scores) = MaxTasks
    /\ LET model == benchmark.models[benchmark.i]
           score == ModelScore(model, average(benchmark.scores),
                               benchmark.capability.SupportsTools)
           stored == [benchmark EXCEPT
                         !.pc = "next", !.i = @ + 1,
                         !.partialScores = (model :> score) @@ @,
                         !.allScores = Append(@, score)]
       IN  \E order \in Orders(stored.partialScores) :
               benchmark' = savePartialResults(stored, order)

InitBenchmark ==
    /\ ProgramAtRest
    /\ registry = EmptyRegistry
    /\ messages = << >>
    /\ executor = Nil /\ session = Nil /\ sample = Nil /\ ConcurrentAtRest
    /\ \E n \in 0..MaxModels : benchmark = NewBackgroundBenchmark(SubSeq(ModelNames, 1, n))

NextBenchmark ==
    /\ \/ Stop
       \/ ListModelsReturns
       \/ LoopHead
       \/ DetectStep
       \/ TaskStep
       \/ ModelReturns
    /\ UNCHANGED <<programVars, executor, session, sample, concurrentVars>>

SpecBenchmark == InitBenchmark /\ [][NextBenchmark]_vars

\* the run has ended after a cancellation that came when some but not all of
\* the models had been benchmarked
CancelledPartWay ==
    /\ benchmark.pc = "done" /\ benchmark.ctx = "cancelled"
    /\ benchmark.completedAtCancel # {}
    /\ Cardinality(benchmark.completedAtCancel) < Len(benchmark.models)

\* C23: a run whose context is cancelled when exactly k models have been
\* benchmarked writes the partial results once more and ends, with done
\* closed and running false, and the partial results then hold the scores
\* of exactly these k models
C23_PartialResultsOfCompleted ==
    CancelledPartWay =>
        /\ benchmark.done = "closed" /\ ~benchmark.running
        /\ benchmark.writesSinceCancel = 1
        /\ DOMAIN benchmark.partialFile = benchmark.completedAtCancel

\* however the run ends, done is closed and running is false
EndsCleanly ==
    benchmark.pc = "done" => benchmark.done = "closed" /\ ~benchmark.running

(***************************************************************************)
(* The registry on its own: Register, Unregister, Get, AllFiltered and     *)
(* Execute, for any sequence of registrations.                             *)
(***************************************************************************)
NoTool == [kind |-> "none", wrapped |-> FALSE, level |-> "none"]

\* Registry.Get: the tool and whether the name is registered
Get(reg, name) ==
    IF name \in DOMAIN reg THEN <<reg[name], TRUE>> ELSE <<NoTool, FALSE>>

\* sample.last keeps, for every name, the tool of the last registration
\* under it that no removal has followed, or NoTool
RegisterTool(name, tool) ==
    /\ registry' = Register(registry, name, tool)
    /\ sample' = [sample EXCEPT !.last[name] = tool]
    /\ UNCHANGED <<cfgStore, mcpServers>>

UnregisterTool(name) ==
    /\ registry' = Unregister(registry, name)
    /\ sample' = [sample EXCEPT !.last[name] = NoTool]
    /\ UNCHANGED <<cfgStore, mcpServers>>

RegistryNames == {"read_file", "write_file", "run_command", "web_fetch"}

RegistryTools == {Gated("builtin", "Read"), Gated("custom", "Execute"), Bare("custom")}

InitRegistryOps ==
    /\ ProgramAtRest
    /\ registry = EmptyRegistry
    /\ messages = << >>
    /\ executor = Nil /\ session = Nil /\ benchmark = Nil /\ ConcurrentAtRest
    /\ sample = [last |-> [n \in RegistryNames |-> NoTool]]

NextRegistryOps ==
    /\ \/ \E name \in RegistryNames : \E tool \in RegistryTools : RegisterTool(name, tool)
       \/ \E name \in RegistryNames : UnregisterTool(name)
    /\ UNCHANGED <<gateVars, agentVars, uiVars, executor, session, benchmark, concurrentVars>>

SpecRegistryOps == InitRegistryOps /\ [][NextRegistryOps]_vars

Registered(name) == sample.last[name] # NoTool

\* C25: after any registrations and removals, Get gives for a name the tool
\* registered last under it and not removed since, or nothing; AllFiltered
\* gives the registered tools whose names are not in the list; Execute with
\* a name that is not registered gives the tool-not-found error
C25_RegistryFollowsOperations ==
    /\ \A name \in RegistryNames :
           Get(registry, name) = <<sample.last[name], Registered(name)>>
    /\ \A D \in SUBSET RegistryNames :
           AllFiltered(registry, D) = {n \in RegistryNames : Registered(n)} \ D
    /\ \A name \in RegistryNames :
           ~Registered(name) =>
               RegistryExecute(registry, permissionConfig, checker, name, << >>)
                   = { Outcome([result |-> "", err |-> ErrToolNotFound(name)], FALSE) }

\* read_file is registered with a tool, write_file is not registered, and
\* AllFiltered leaves out a disabled name
C25_Witness ==
    /\ Get(registry, "read_file") = <<Bare("custom"), TRUE>>
    /\ ~Get(registry, "write_file")[2]
    /\ Get(registry, "web_fetch")[2]
    /\ AllFiltered(registry, {"web_fetch"}) = {"read_file"}

(***************************************************************************)
(* The conversation of an agent: the loop appends to it, ClearHistory      *)
(* resets it, and CompressConversationTool is built with the agent as its  *)
(* ConversationManager.                                                    *)
(***************************************************************************)
DefaultPreserveRecent == 5

\* what CompressConversationTool.Execute leaves of the conversation; answered
\* tells whether the request for the summary succeeds
Compress(msgs, preserveRecent, answered) ==
    LET toCompress == { i \in 1..Len(msgs) :
                          /\ ~(i = 1 /\ msgs[i].role = "system")
                          /\ i <= Len(msgs) - preserveRecent }
    IN  IF Len(msgs) <= preserveRecent + 1 THEN msgs
        ELSE IF toCompress = {} THEN msgs
        ELSE IF ~answered THEN msgs
        ELSE ClearHistory(msgs)

\* AddSystemPrompt, and the messages that Chat and executeToolCalls append
AgentAppends(role, content) ==
    /\ Len(messages) < MaxMessages
    /\ messages' = Append(messages, Message(role, content, ""))

\* /reset
ResetCommand == messages' = ClearHistory(messages)

\* the agent's registry executes compress_conversation
CompressConversationExecute(preserveRecent, answered) ==
    messages' = Compress(messages, preserveRecent, answered)

ConversationRest ==
    <<toolCallFormat, disabledTools, backendStyle, chat, incidents,
      gateVars, registryVars, uiVars, auxVars>>

InitConversation ==
    /\ ProgramAtRest
    /\ registry = EmptyRegistry
    /\ messages = << >>
    /\ AuxAtRest

NextConversation ==
    /\ \/ \E role \in {"system", "user", "assistant", "tool"} : AgentAppends(role, "a")
       \/ AgentAppends("system", "b")
       \/ ResetCommand
       \/ \E preserveRecent \in {0, 1, DefaultPreserveRecent} : \E answered \in BOOLEAN :
              CompressConversationExecute(preserveRecent, answered)
    /\ UNCHANGED ConversationRest

SpecConversation == InitConversation /\ [][NextConversation]_vars

\* C26: the execution of a tool leaves the messages of the agent's
\* conversation as they are; only the agent's loop and an explicit reset
\* change them
C26_ToolsLeaveMessages ==
    [][\A preserveRecent \in {0, 1, DefaultPreserveRecent} : \A answered \in BOOLEAN :
           CompressConversationExecute(preserveRecent, answered)
               => messages' = messages]_vars

(***************************************************************************)
(* MCPClient: one client of an external tool server, called from several   *)
(* goroutines.  Start and CallTool hold the client's mutex from their      *)
(* first line to their return; Close takes no mutex.                       *)
(***************************************************************************)
MaxOps == 2

ClientThreads == {"t1", "t2"}

\* the client that MCPToolRegistry.AddServer has started and stored
StartedClient ==
    [ mu |-> "free", cmd |-> "running", stdin |-> "open",
      pc |-> [t \in ClientThreads |-> "idle"],
      op |-> [t \in ClientThreads |-> "none"],
      stage |-> [t \in ClientThreads |-> "none"],
      left |-> [t \in ClientThreads |-> MaxOps],
      interferedBy |-> {} ]

\* thread t uses the server's streams within the operation op: the operation
\* is noted down when another thread has written a request and not yet read
\* its response
Touch(c, t, op) ==
    [c EXCEPT !.interferedBy =
        IF \E u \in ClientThreads \ {t} : c.pc[u] = "read" THEN @ \cup {op} ELSE @]

\* Start and CallTool begin with c.mu.Lock()
Lock(t, op) ==
    /\ client.pc[t] = "idle" /\ client.left[t] > 0
    /\ client.mu = "free"
    /\ client' = [client EXCEPT
                     !.mu = t, !.op[t] = op,
                     !.pc[t] = IF op = "Start" THEN "spawn" ELSE "write",
                     !.stage[t] = IF op = "Start" THEN "none" ELSE "call"]

\* Start: the pipes are made and the process is started; a failure returns
StartProcess(t, started) ==
    /\ client.pc[t] = "spawn"
    /\ client' =
         IF started
         THEN [Touch(client, t, "Start") EXCEPT
                 !.cmd = "running", !.stdin = "open",
                 !.pc[t] = "write", !.stage[t] = "initialize"]
         ELSE [client EXCEPT !.pc[t] = "unlock"]

\* what a failed request leads to: Start closes the client, CallTool returns
AfterFailure(c, t) == [c EXCEPT !.pc[t] = IF c.op[t] = "Start" THEN "close" ELSE "unlock"]

\* sendRequest, first half: the request line is written to the server's stdin
WriteRequest(t) ==
    /\ client.pc[t] = "write"
    /\ client' =
         IF client.stdin = "open"
         THEN [Touch(client, t, client.op[t]) EXCEPT !.pc[t] = "read"]
         ELSE AfterFailure(Touch(client, t, client.op[t]), t)

\* sendRequest, second half: the response line is read; the read fails when
\* the process has been killed, and the response can be an error
ReadResponse(t, good) ==
    /\ client.pc[t] = "read"
    /\ LET c == Touch(client, t, client.op[t]) IN
       client' =
         IF client.cmd = "killed" \/ ~good THEN AfterFailure(c, t)
         ELSE IF client.stage[t] = "initialize"
         THEN [c EXCEPT !.pc[t] = "write", !.stage[t] = "list"]
         ELSE [c EXCEPT !.pc[t] = "unlock"]

\* the deferred c.mu.Unlock() of Start and CallTool
Unlock(t) ==
    /\ client.pc[t] = "unlock"
    /\ client' = [client EXCEPT
                     !.mu = "free", !.pc[t] = "idle", !.op[t] = "none",
                     !.stage[t] = "none", !.left[t] = @ - 1]

\* Close is called: it takes no mutex
CloseBegins(t) ==
    /\ client.pc[t] = "idle" /\ client.left[t] > 0
    /\ client' = [client EXCEPT !.op[t] = "Close", !.pc[t] = "close"]

\* Close: c.stdin.Close(), in a call of Close or in Start's call of it
CloseStdin(t) ==
    /\ client.pc[t] = "close"
    /\ client' = [Touch(client, t, "Close") EXCEPT !.stdin = "closed", !.pc[t] = "kill"]

\* Close: the process is killed and waited for, and Close returns
KillProcess(t) ==
    /\ client.pc[t] = "kill"
    /\ client' =
         IF client.op[t] = "Start"
         THEN [client EXCEPT !.cmd = "killed", !.pc[t] = "unlock"]
         ELSE [client EXCEPT
                 !.cmd = "killed", !.pc[t] = "idle", !.op[t] = "none",
                 !.left[t] = @ - 1]

InitClient ==
    /\ ProgramAtRest
    /\ registry = EmptyRegistry
    /\ messages = << >>
    /\ executor = Nil /\ session = Nil /\ benchmark = Nil /\ sample = Nil
    /\ progress = Nil /\ files = Nil /\ tracker = Nil
    /\ client = StartedClient

NextClient ==
    /\ \E t \in ClientThreads :
         \/ \E op \in {"Start", "CallTool"} : Lock(t, op)
         \/ \E started \in BOOLEAN : StartProcess(t, started)
         \/ WriteRequest(t)
         \/ \E good \in BOOLEAN : ReadResponse(t, good)
         \/ Unlock(t)
         \/ CloseBegins(t)
         \/ CloseStdin(t)
         \/ KillProcess(t)
    /\ UNCHANGED <<programVars, executor, session, benchmark, sample,
                   progress, files, tracker>>

SpecClient == InitClient /\ [][NextClient]_vars

\* C31: while one thread is between the writing of a request line and the
\* reading of its response line, no operation of another thread on the same
\* client (Start, CallTool or Close) reads, writes or closes the streams
C31_ClientSerialised == client.interferedBy = {}

\* Start and CallTool never do so: only Close, which takes no mutex, does
LockedOperationsSerialised == client.interferedBy \subseteq {"Close"}

\* at most one thread is inside Start or CallTool
OneInsideMutex ==
    \A t, u \in ClientThreads :
        t # u /\ client.op[t] \in {"Start", "CallTool"}
              /\ client.op[u] \in {"Start", "CallTool"} => FALSE

(***************************************************************************)
(* The progress channel: a buffered channel that the benchmarker and the   *)
(* detector send on.  In first-run setup (RunSetup) the setup UI reads it  *)
(* through waitForProgress and RunSetup closes it when the UI has ended;   *)
(* in the background benchmark (BackgroundBenchmark.run) a goroutine of    *)
(* its own reads it and run closes it after its last send.                 *)
(***************************************************************************)
\* the capacity of the channel, 100 in the code, and the number of messages
\* that a run of the benchmarker produces
ChannelCap == 2
MaxProgress == 4

\* the channel after make and the start of the sending goroutine; early is
\* the message that RunSetup itself sends when a default model is set
NewProgress(owner, early, toSend) ==
    [ owner |-> owner, buffered |-> early, closed |-> FALSE,
      sender |-> "sending", toSend |-> toSend,
      reader |-> "waiting", ui |-> IF owner = "setup" THEN "running" ELSE "none",
      sent |-> early, received |-> 0 ]

\* the sender is at a send that cannot proceed: the buffer is full
SendBlocked ==
    /\ progress.sender = "sending" /\ progress.toSend > 0
    /\ ~progress.closed /\ progress.buffered = ChannelCap

\* progressChan <- msg: the send panics on a closed channel, waits while the
\* buffer is full, and otherwise puts the message into the buffer
Send ==
    /\ progress.sender = "sending" /\ progress.toSend > 0
    /\ progress.closed \/ progress.buffered < ChannelCap
    /\ progress' =
         IF progress.closed THEN [progress EXCEPT !.sender = "panicked"]
         ELSE [progress EXCEPT
                  !.buffered = @ + 1, !.sent = @ + 1, !.toSend = @ - 1]

\* after its last send, run closes the channel, and the goroutine of
\* RunSetup sends doneMsg to the program
SenderFinishes ==
    /\ progress.sender = "sending" /\ progress.toSend = 0
    /\ progress' =
         IF progress.owner = "background"
         THEN [progress EXCEPT !.sender = "done", !.closed = TRUE]
         ELSE [progress EXCEPT !.sender = "notified"]

\* a receive: by the goroutine that run starts, which stores the message
\* and receives again, or by the command that waitForProgress returned
Receive ==
    /\ progress.reader = "waiting"
    /\ progress.buffered > 0
    /\ progress' =
         IF progress.owner = "background"
         THEN [progress EXCEPT !.buffered = @ - 1, !.received = @ + 1]
         ELSE [progress EXCEPT !.buffered = @ - 1, !.reader = "delivering"]

\* a receive on the closed and empty channel ends the reader
ReceiveClosed ==
    /\ progress.reader = "waiting"
    /\ progress.buffered = 0 /\ progress.closed
    /\ progress' = [progress EXCEPT !.reader = "ended"]

\* setupModel.Update for a progressMsg: the message is shown and a new
\* waitForProgress is returned; a program that has ended handles none
UpdateProgress ==
    /\ progress.reader = "delivering"
    /\ progress' =
         IF progress.ui = "running"
         THEN [progress EXCEPT !.received = @ + 1, !.reader = "waiting"]
         ELSE [progress EXCEPT !.reader = "ended"]

\* setupModel.Update for ctrl+c or q: tea.Quit
UpdateQuitKey ==
    /\ progress.ui = "running"
    /\ progress' = [progress EXCEPT !.ui = "quit"]

\* setupModel.Update for the doneMsg: tea.Quit
UpdateDone ==
    /\ progress.ui = "running" /\ progress.sender = "notified"
    /\ progress' = [progress EXCEPT !.ui = "quit", !.sender = "done"]

\* p.Run returns and RunSetup closes the channel
RunSetupReturns ==
    /\ progress.ui = "quit"
    /\ progress' = [progress EXCEPT !.ui = "returned", !.closed = TRUE]

InitProgress ==
    /\ ProgramAtRest
    /\ registry = EmptyRegistry
    /\ messages = << >>
    /\ executor = Nil /\ session = Nil /\ benchmark = Nil /\ sample = Nil
    /\ client = Nil /\ files = Nil /\ tracker = Nil
    /\ \E toSend \in 1..MaxProgress :
         \/ progress = NewProgress("background", 0, toSend)
         \/ \E early \in {0, 1} : progress = NewProgress("setup", early, toSend)

NextProgress ==
    /\ \/ Send
       \/ SenderFinishes
       \/ Receive
       \/ ReceiveClosed
       \/ UpdateProgress
       \/ UpdateQuitKey
       \/ UpdateDone
       \/ RunSetupReturns
    /\ UNCHANGED <<programVars, executor, session, benchmark, sample,
                   client, files, tracker>>

SpecProgress == InitProgress /\ [][NextProgress]_vars

\* C32: a progress message produced while the channel is full is dropped:
\* the sender is never held up at a send by a full channel
C32_SendNeverBlocks == ~SendBlocked

\* no message is dropped while the reader is at work: each message sent is
\* in the buffer, on its way to the UI, or received
NothingDropped ==
    progress.reader \in {"waiting", "delivering"} =>
        progress.sent = progress.buffered + progress.received
                        + (IF progress.reader = "delivering" THEN 1 ELSE 0)

\* C38: in first-run setup no progress message is sent on the channel after
\* RunSetup has closed it
C38_NoSendAfterClose == progress.owner = "setup" => progress.sender # "panicked"

\* the background benchmark closes the channel itself, after its last send
BackgroundNeverSendsAfterClose ==
    progress.owner = "background" => progress.sender # "panicked"

(***************************************************************************)
(* The configuration file and the goroutines that write it.  The chat      *)
(* commands (UI goroutine), the tools and the background benchmark share   *)
(* one *config.Config and call its Save; savePermissionPattern, on the     *)
(* goroutine of the turn, loads a Config of its own from the file, adds    *)
(* the pattern and saves that.                                             *)
(***************************************************************************)
MaxSaves == 2

FileThreads == {"ui", "benchmark", "turn"}

SavedPatterns == {"go", "ls"}

SavedTools == {"bash", "web_fetch"}

\* the fields of a Config that the writers change
ConfigOf(patterns, disabledList, models) ==
    [AlwaysAllowPatterns |-> patterns, DisabledTools |-> disabledList,
     ModelCapabilities |-> models]

\* the session after start-up: the shared Config holds what Load read
NewFiles ==
    [ disk |-> ConfigOf({}, {}, 0), cfg |-> ConfigOf({}, {}, 0),
      pc |-> [t \in FileThreads |-> "idle"],
      data |-> [t \in FileThreads |-> ConfigOf({}, {}, 0)],
      left |-> [t \in FileThreads |-> MaxSaves],
      persisted |-> {}, sessionSaved |-> FALSE ]

\* Config.Save up to os.WriteFile: the Config is marshalled as it is now
Marshalled(f, t, c) == [f EXCEPT !.data[t] = c, !.pc[t] = "open"]

\* DisableToolCommand.Execute with --permanent, on the UI goroutine
DisableToolPermanent(toolName) ==
    /\ files.pc["ui"] = "idle" /\ files.left["ui"] > 0
    /\ toolName \notin files.cfg.DisabledTools
    /\ LET c == [files.cfg EXCEPT !.DisabledTools = @ \cup {toolName}]
       IN  files' = Marshalled([files EXCEPT !.cfg = c], "ui", c)

\* BackgroundBenchmark.savePartialResults, on the goroutine of the run
SavePartialResults ==
    /\ files.pc["benchmark"] = "idle" /\ files.left["benchmark"] > 0
    /\ LET c == [files.cfg EXCEPT !.ModelCapabilities = @ + 1]
       IN  files' = Marshalled([files EXCEPT !.cfg = c], "benchmark", c)

\* savePermissionPattern up to os.WriteFile; a file that another goroutine
\* is writing can be read whole or cut short, and a cut one fails to parse
SavePatternLoads(pattern, whole) ==
    /\ files.pc["turn"] = "idle" /\ files.left["turn"] > 0
    /\ whole \/ \E t \in FileThreads : files.pc[t] = "writing"
    /\ files' =
         IF ~whole \/ pattern \in files.disk.AlwaysAllowPatterns
         THEN [files EXCEPT !.left["turn"] = @ - 1]
         ELSE Marshalled(files, "turn",
                         [files.disk EXCEPT !.AlwaysAllowPatterns = @ \cup {pattern}])

\* os.WriteFile opens the file, which empties it
WriteBegins(t) ==
    /\ files.pc[t] = "open"
    /\ files' = [files EXCEPT !.pc[t] = "writing"]

\* os.WriteFile has written the data and closes the file
WriteEnds(t) ==
    /\ files.pc[t] = "writing"
    /\ files' =
         [files EXCEPT
            !.disk = files.data[t], !.pc[t] = "idle", !.left[t] = @ - 1,
            !.persisted = IF t = "turn" THEN @ \cup files.data[t].AlwaysAllowPatterns
                          ELSE @,
            !.sessionSaved = @ \/ t # "turn"]

InitFiles ==
    /\ ProgramAtRest
    /\ registry = EmptyRegistry
    /\ messages = << >>
    /\ executor = Nil /\ session = Nil /\ benchmark = Nil /\ sample = Nil
    /\ client = Nil /\ progress = Nil /\ tracker = Nil
    /\ files = NewFiles

NextFiles ==
    /\ \/ \E toolName \in SavedTools : DisableToolPermanent(toolName)
       \/ SavePartialResults
       \/ \E pattern \in SavedPatterns : \E whole \in BOOLEAN :
              SavePatternLoads(pattern, whole)
       \/ \E t \in FileThreads : WriteBegins(t)
       \/ \E t \in FileThreads : WriteEnds(t)
    /\ UNCHANGED <<programVars, executor, session, benchmark, sample,
                   client, progress, tracker>>

SpecFiles == InitFiles /\ [][NextFiles]_vars

FilesAtRest == \A t \in FileThreads : files.pc[t] = "idle"

\* C33: no two writes of the configuration file overlap in time
C33_WritesSerialised ==
    \A t, u \in FileThreads :
        files.pc[t] = "writing" /\ files.pc[u] = "writing" => t = u

\* C35: a pattern that savePermissionPattern has written to the file is in
\* the file after every later save of the session
C35_PatternsStayPersisted ==
    FilesAtRest => files.persisted \subseteq files.disk.AlwaysAllowPatterns

\* the patterns stay as long as only savePermissionPattern writes the file
PatternsStayUntilSessionSaves ==
    FilesAtRest /\ ~files.sessionSaved
        => files.persisted \subseteq files.disk.AlwaysAllowPatterns

(***************************************************************************)
(* The life of one BackgroundBenchmark: Start, the goroutines that Start   *)
(* launches, and Stop, called in any order by the owner of the object.     *)
(***************************************************************************)
MaxStarts == 2
MaxStops == 1

StopThreads == {"t1", "t2"}

\* NewBackgroundBenchmark: done is open and nothing runs.  inBody and
\* inDefers count the goroutines of run before and after the end of its
\* body, at is the number of models the run in its body has benchmarked
CreatedBenchmark ==
    [ running |-> FALSE, done |-> "open", ctx |-> "live",
      inBody |-> 0, at |-> 0, inDefers |-> 0, closes |-> 0, starts |-> 0,
      stopper |-> [t \in StopThreads |-> "idle"],
      stops |-> [t \in StopThreads |-> 0] ]

\* Start: under the mutex, nothing happens when running is set; otherwise
\* running is set and a goroutine for run is launched
StartCall ==
    /\ benchmark.starts < MaxStarts
    /\ benchmark.closes <= 1
    /\ benchmark' =
         IF benchmark.running THEN [benchmark EXCEPT !.starts = @ + 1]
         ELSE [benchmark EXCEPT
                 !.starts = @ + 1, !.running = TRUE, !.inBody = @ + 1, !.at = 0]

\* run benchmarks the next model, when there is one and the context is live
RunBenchmarksModel ==
    /\ benchmark.inBody > 0
    /\ benchmark.closes <= 1
    /\ benchmark.ctx = "live" /\ benchmark.at < MaxModels
    /\ benchmark' = [benchmark EXCEPT !.at = @ + 1]

\* the body of run ends, after the last model or because the context is
\* cancelled, and the deferred function clears running
RunClearsRunning ==
    /\ benchmark.inBody > 0
    /\ benchmark.closes <= 1
    /\ benchmark.ctx = "cancelled" \/ benchmark.at = MaxModels
    /\ benchmark' = [benchmark EXCEPT
                        !.inBody = @ - 1, !.inDefers = @ + 1, !.running = FALSE]

\* the deferred close(bb.done), which panics on a channel already closed
RunClosesDone ==
    /\ benchmark.inDefers > 0
    /\ benchmark.closes <= 1
    /\ benchmark' = [benchmark EXCEPT
                        !.inDefers = @ - 1, !.done = "closed", !.closes = @ + 1]

\* Stop: the context is cancelled and Wait begins
StopCall(t) ==
    /\ benchmark.stopper[t] = "idle" /\ benchmark.stops[t] < MaxStops
    /\ benchmark.closes <= 1
    /\ benchmark' = [benchmark EXCEPT
                        !.ctx = "cancelled", !.stopper[t] = "waiting",
                        !.stops[t] = @ + 1]

\* Wait: the receive from done proceeds once done is closed, and Stop returns
StopReturns(t) ==
    /\ benchmark.stopper[t] = "waiting"
    /\ benchmark.done = "closed"
    /\ benchmark' = [benchmark EXCEPT !.stopper[t] = "idle"]

InitLifecycle ==
    /\ ProgramAtRest
    /\ registry = EmptyRegistry
    /\ messages = << >>
    /\ executor = Nil /\ session = Nil /\ sample = Nil
    /\ ConcurrentAtRest
    /\ benchmark = CreatedBenchmark

NextLifecycle ==
    /\ \/ StartCall
       \/ RunBenchmarksModel
       \/ RunClearsRunning
       \/ RunClosesDone
       \/ \E t \in StopThreads : StopCall(t)
       \/ \E t \in StopThreads : StopReturns(t)
    /\ UNCHANGED <<programVars, executor, session, sample, concurrentVars>>

SpecLifecycle == InitLifecycle /\ [][NextLifecycle]_vars

lifecycleRest == <<programVars, executor, session, sample, concurrentVars>>

\* every goroutine goes on, and a Stop whose receive can proceed returns
SpecLifecycleFair ==
    /\ SpecLifecycle
    /\ WF_vars(RunBenchmarksModel /\ UNCHANGED lifecycleRest)
    /\ WF_vars(RunClearsRunning /\ UNCHANGED lifecycleRest)
    /\ WF_vars(RunClosesDone /\ UNCHANGED lifecycleRest)
    /\ \A t \in StopThreads : WF_vars(StopReturns(t) /\ UNCHANGED lifecycleRest)

\* C36: whatever Start calls and run completions there are, done is closed
\* at most once and at most one run is active at a time
C36_OneRunOneClose ==
    /\ benchmark.closes <= 1
    /\ benchmark.inBody + benchmark.inDefers <= 1

\* at most one run is in its body at a time: Start's test of running sees to it
OneRunInBody == benchmark.inBody <= 1

\* as long as Start is called once, done is closed at most once
OneStartOneClose == benchmark.starts <= 1 => benchmark.closes <= 1

\* C37: a call of Stop returns, whether the benchmark was never started, is
\* running or has finished
C37_StopReturns ==
    \A t \in StopThreads :
        (benchmark.stopper[t] = "waiting") ~> (benchmark.stopper[t] = "idle")

\* a call of Stop on a benchmark that has been started returns
StopOfStartedReturns ==
    \A t \in StopThreads :
        (benchmark.stopper[t] = "waiting" /\ benchmark.starts > 0)
            ~> (benchmark.stopper[t] = "idle")

(***************************************************************************)
(* ModelMemoryTracker: the statistics per model, used by the goroutines    *)
(* that record the use of a model and by garbage collection.  Each method  *)
(* holds the tracker's lock for its body; PerformGarbageCollection calls   *)
(* GetInactiveModels and takes the lock again afterwards.                  *)
(***************************************************************************)
MaxUses == 2
MaxCollections == 2

TrackedModels == {"llama", "qwen"}

\* ModelStats: Active, and whether LastUsed is longer ago than the duration
\* that garbage collection is called with
Stats(active, stale) == [Active |-> active, stale |-> stale]

\* NewModelMemoryTracker
NewTracker ==
    [ modelStats |-> << >>, gc |-> "idle", inactive |-> {},
      uses |-> 0, collections |-> 0 ]

\* RecordModelUse: the model's statistics are made if need be, LastUsed is
\* now and Active is set
RecordModelUse(modelName) ==
    /\ tracker.uses < MaxUses
    /\ tracker' = [tracker EXCEPT
                      !.uses = @ + 1,
                      !.modelStats = (modelName :> Stats(TRUE, FALSE)) @@ @]

\* MarkModelInactive
MarkModelInactive(modelName) ==
    /\ modelName \in DOMAIN tracker.modelStats
    /\ tracker.modelStats[modelName].Active
    /\ tracker' = [tracker EXCEPT !.modelStats[modelName].Active = FALSE]

\* time passes: the last use of every model is now long ago
TimePasses ==
    /\ \E m \in DOMAIN tracker.modelStats : ~tracker.modelStats[m].stale
    /\ tracker' = [tracker EXCEPT
                      !.modelStats = [m \in DOMAIN @ |-> [@[m] EXCEPT !.stale = TRUE]]]

\* GetInactiveModels: the models that are not active and not used recently
GetInactiveModels(modelStats) ==
    { m \in DOMAIN modelStats : ~modelStats[m].Active /\ modelStats[m].stale }

\* PerformGarbageCollection up to the return of GetInactiveModels
CollectionBegins ==
    /\ tracker.gc = "idle" /\ tracker.collections < MaxCollections
    /\ tracker' = [tracker EXCEPT
                      !.gc = "listed", !.collections = @ + 1,
                      !.inactive = GetInactiveModels(tracker.modelStats)]

\* PerformGarbageCollection from t.mu.Lock() on: the listed models are deleted
CollectionDeletes ==
    /\ tracker.gc = "listed"
    /\ tracker' = [tracker EXCEPT
                      !.gc = "idle", !.inactive = {},
                      !.modelStats = [m \in DOMAIN @ \ tracker.inactive |-> @[m]]]

InitTracker ==
    /\ ProgramAtRest
    /\ registry = EmptyRegistry
    /\ messages = << >>
    /\ executor = Nil /\ session = Nil /\ benchmark = Nil /\ sample = Nil
    /\ client = Nil /\ progress = Nil /\ files = Nil
    /\ tracker = NewTracker

NextTracker ==
    /\ \/ \E modelName \in TrackedModels : RecordModelUse(modelName)
       \/ \E modelName \in TrackedModels : MarkModelInactive(modelName)
       \/ TimePasses
       \/ CollectionBegins
       \/ CollectionDeletes
    /\ UNCHANGED <<programVars, executor, session, benchmark, sample,
                   client, progress, files>>

SpecTracker == InitTracker /\ [][NextTracker]_vars

\* the models whose statistics the step removes
RemovedByStep == DOMAIN tracker.modelStats \ DOMAIN tracker'.modelStats

\* C40: garbage collection never removes the statistics of a model that is
\* marked active at the moment of the removal
C40_RemovedModelsInactive ==
    [][\A m \in RemovedByStep : ~tracker.modelStats[m].Active]_vars

\* every model removed was inactive and long unused when GetInactiveModels
\* listed it
RemovedModelsWereListed == [][RemovedByStep \subseteq tracker.inactive]_vars
====
